---- MODULE Spec2Model ----
(***************************************************************************)
(* Verification model of the recipe-driven report pipeline:                *)
(*   - APIClient.fetch_data / fetch_all_with_resume (paginated fetcher     *)
(*     with retry, duplicate-id end detection and on-disk checkpoint),     *)
(*   - DataCache (response cache keyed by endpoint and parameter hash),    *)
(*   - DataTransformer.transform (ordered transform steps),                *)
(*   - ReportEngine.run (the recipes of a run, one after the other),       *)
(*   - DataTransformer._apply_group_by and _apply_sort on rows.            *)
(***************************************************************************)
EXTENDS Integers, Sequences, FiniteSets, TLC

(***************************************************************************)
(* Bounds of the model                                                     *)
(***************************************************************************)
MaxRecords == 3

MaxLimit == 2

MaxKills == 1

MaxCalls == 2

MaxPuts == 2

MaxSteps == 2

\* a run loads at most MaxRecipes recipes
MaxRecipes == 2

\* a DataFrame given to a single step has at most MaxRows rows
MaxRows == 2

\* a response of the reporter's API has at most MaxItems items
MaxItems == 2

(***************************************************************************)
(* Program constants                                                       *)
(***************************************************************************)
max_retries == 8

max_consecutive_empty == 3

\* rec.get('id') is falsy both for a missing id and for the id 0
NoId == 0

ParamNames == {"filter", "sort", "limit", "offset", "archived"}

(***************************************************************************)
(* Filter expressions.  A filter string "c1;c2;..." is the sequence of its *)
(* clauses; a clause "field op value" is a record of its three tokens.     *)
(***************************************************************************)
Clause(f, op, v) == [f |-> f, op |-> op, v |-> v]

DateFrom == Clause("detected", ">=", "${start}")

DateTo == Clause("detected", "<=", "${end}")

DateFromOther == Clause("detected", ">=", "2024-01-01")

SevHigh == Clause("severity", "==", "high")

TypeCve == Clause("type", "==", "cve")

StatusIn == Clause("status", "=in=", "(OPEN,IN_TRIAGE)")

FDate == <<DateFrom, DateTo>>

(***************************************************************************)
(* Upstream records.  rid is the identity of the record in the upstream    *)
(* set, id is the value of its 'id' field (NoId when the record has none). *)
(* fetch_data wraps a response object whose items are empty into a one     *)
(* element list; that element is the envelope.                             *)
(***************************************************************************)
SeverityOf(k) == IF k % 2 = 1 THEN "high" ELSE "low"

TypeOf(k) == IF k <= 2 THEN "cve" ELSE "config"

StatusOf(k) == IF k = 1 THEN "OPEN" ELSE IF k = 2 THEN "RESOLVED" ELSE "IN_TRIAGE"

Rec(k, withId) ==
    [kind |-> "record", rid |-> k, id |-> IF withId THEN k ELSE NoId,
     severity |-> SeverityOf(k), type |-> TypeOf(k), status |-> StatusOf(k)]

\* the response object {"items": [], "total": total}; it has none of the
\* record fields, so item.get(...) is None ("" here) for each of them
Envelope(total) ==
    [kind |-> "envelope", rid |-> total, id |-> NoId,
     severity |-> "", type |-> "", status |-> ""]

Min(a, b) == IF a < b THEN a ELSE b

Max(a, b) == IF a > b THEN a ELSE b

Range(s) == {s[i] : i \in 1..Len(s)}

VARIABLES
    \* upstream (environment), fixed during a behaviour
    upN,            \* number of upstream records
    upIds,          \* do the records carry an id
    upFormat,       \* "list" | "object" | "object_bad_total"
    upPastEnd,      \* "empty" | "repeat_last" | "clamp"
    \* the query of the fetch
    query,
    \* APIClient.fetch_all_with_resume
    pc,             \* "idle" | "loop" | "returned" | "raised"
    offset,
    all_results,
    consecutive_empty_pages,
    retry_count,
    result,         \* the returned list
    \* DataCache.cache
    cache,
    \* the progress file: [exists |-> FALSE] or [exists, content, offset,
    \* results]; content is "object" for the JSON object the fetch writes
    progress_file,
    temp_file,      \* "none" | "partial": a temporary file left half written
    calls,          \* calls of fetch_all_with_resume in this process run
    \* history
    kills,          \* process kills so far
    errorFree,      \* no page request of this call has failed
    exhausted,      \* the retry budget was exceeded in this call
    startOffset,    \* the offset this call started its loop at
    \* use of the cache by a caller (DataCache.put / get / clear)
    putLog,         \* the puts since the last clear, oldest first
    lastGet,        \* the last operation, when it was a get: its query and value
    \* DataTransformer.transform
    transforms,     \* the transform list
    additional_data,\* the auxiliary datasets: [given |-> FALSE] is None
    tpc,            \* "idle" | "running" | "returned" | "raised"
    step_i,         \* the steps the loop has gone through (i of enumerate)
    df,             \* the dataset: its columns and the steps applied to it
    error,          \* the exception transform() raised
    failedAt,       \* history: the first step that failed, 0 when none did
    input_data,     \* the dataset transform() was called with (data)
    stepLog,        \* history: per iteration, the dataset received and left
    \* ReportEngine.run
    loaded,         \* the recipes load_recipes() returns
    recipe_filter,  \* config.recipe_filter, "" when not set
    recipes,        \* the recipes the loop goes through
    rpc,            \* "idle" | "processing" | "rendering" | "done"
    idx,            \* the recipe the loop is at (idx of enumerate)
    rstep,          \* the statement of _process_recipe to execute next
    all_succeeded,
    generated_files,\* the recipes files were rendered for
    run_result,     \* the value run() returned
    events,         \* history: the statements executed, oldest first
    outcomes,       \* history: how the processing of each recipe ended
    \* one step of DataTransformer on rows (_apply_group_by, _apply_sort)
    frame,          \* the rows of the DataFrame the step is given, in order
    step_config,    \* the configuration of the step
    opc,            \* "idle" | "ready" | "done"
    output          \* the DataFrame the step returned, or that it raised

\* the state of the fetcher other than the cache
fetchLocals == <<upN, upIds, upFormat, upPastEnd, query, pc, offset, all_results,
                 consecutive_empty_pages, retry_count, result, progress_file,
                 calls, kills, errorFree, exhausted, startOffset>>

cacheUseVars == <<putLog, lastGet>>

transformVars == <<transforms, additional_data, tpc, step_i, df, error, failedAt,
                   input_data, stepLog>>

runVars == <<loaded, recipe_filter, recipes, rpc, idx, rstep, all_succeeded,
             generated_files, run_result, events, outcomes>>

\* what the calls and the iterations of a fetch leave alone
frameVars == <<frame, step_config, opc, output>>

nonFetchVars == <<cacheUseVars, transformVars, temp_file, runVars, frameVars>>

nonCacheVars == <<fetchLocals, transformVars, temp_file, runVars, frameVars>>

nonTransformVars == <<fetchLocals, cache, cacheUseVars, temp_file, runVars,
                      frameVars>>

nonRunVars == <<fetchLocals, cache, cacheUseVars, transformVars, temp_file,
                frameVars>>

vars == <<fetchLocals, cache, cacheUseVars, transformVars, temp_file, runVars,
          frameVars>>

(***************************************************************************)
(* DataCache                                                               *)
(***************************************************************************)
\* json.dumps(sort_keys=True) followed by md5: equal exactly for equal
\* dictionaries (md5 collisions are not modelled)
Hash(params_dict) == params_dict

\* query.params is the function from the names of the fields that are not
\* None to their values
_generate_cache_key_without_filter(q) ==
    LET params_dict == [k \in {n \in ParamNames \ {"filter"} : n \in DOMAIN q.params}
                            |-> q.params[k]]
    IN [endpoint |-> q.endpoint,
        params_hash |-> Hash(params_dict),
        full_params |-> params_dict]

_generate_cache_key(q) ==
    LET params_dict == [k \in {n \in ParamNames : n \in DOMAIN q.params} |-> q.params[k]]
    IN [endpoint |-> q.endpoint,
        params_hash |-> Hash(params_dict),
        full_params |-> params_dict]

CacheId(q) ==
    LET cache_key == _generate_cache_key(q)
    IN [endpoint |-> cache_key.endpoint, params_hash |-> cache_key.params_hash]

\* dict.get("filter", ""): a filter that is None is not in the dictionary
FilterOf(params) == IF "filter" \in DOMAIN params THEN params.filter ELSE <<>>

\* len() of the tokens of the filter strings
StrLen(t) ==
    CASE t = "detected" -> 8
      [] t = "severity" -> 8
      [] t = "type" -> 4
      [] t = "status" -> 6
      [] t = ">=" -> 2
      [] t = "<=" -> 2
      [] t = "==" -> 2
      [] t = "=in=" -> 4
      [] t = "${start}" -> 8
      [] t = "${end}" -> 6
      [] t = "2024-01-01" -> 10
      [] t = "high" -> 4
      [] t = "cve" -> 3
      [] t = "(OPEN,IN_TRIAGE)" -> 16

ClauseLen(c) == StrLen(c.f) + StrLen(c.op) + StrLen(c.v)

RECURSIVE SumClauseLen(_)
SumClauseLen(filter) ==
    IF filter = <<>> THEN 0
    ELSE ClauseLen(Head(filter)) + SumClauseLen(Tail(filter))

\* len(filter_expr): the clauses and the ';' between them
FilterLen(filter) ==
    IF filter = <<>> THEN 0 ELSE SumClauseLen(filter) + (Len(filter) - 1)

\* "field op" in filter_expr
HasClause(filter, f, op) ==
    \E i \in 1..Len(filter) : filter[i].f = f /\ filter[i].op = op

\* filter_expr.split("field op")[1].split(";")[0] and re.search: the value of
\* the first clause "field op value"
FirstValue(filter, f, op) ==
    LET i == CHOOSE j \in 1..Len(filter) :
                 /\ filter[j].f = f /\ filter[j].op = op
                 /\ \A k \in 1..(j - 1) : ~(filter[k].f = f /\ filter[k].op = op)
    IN filter[i].v

\* status_match[1:-1].split(",")
InValues(v) == IF v = "(OPEN,IN_TRIAGE)" THEN {"OPEN", "IN_TRIAGE"} ELSE {}

\* None is <<>>, a range is <<start, end>>
_extract_date_range(filter_expr) ==
    IF HasClause(filter_expr, "detected", ">=") /\ HasClause(filter_expr, "detected", "<=")
    THEN <<FirstValue(filter_expr, "detected", ">="), FirstValue(filter_expr, "detected", "<=")>>
    ELSE <<>>

_is_subset_filter(cached_filter, requested_filter) ==
    IF cached_filter = <<>> /\ requested_filter # <<>> THEN FALSE
    ELSE IF cached_filter = requested_filter THEN TRUE
    ELSE IF /\ HasClause(cached_filter, "detected", ">=")
            /\ HasClause(requested_filter, "detected", ">=")
            /\ _extract_date_range(cached_filter) # <<>>
            /\ _extract_date_range(requested_filter) # <<>>
            /\ _extract_date_range(cached_filter) = _extract_date_range(requested_filter)
         THEN FilterLen(requested_filter) > FilterLen(cached_filter)
         ELSE FALSE

_can_reuse_data(cached_params, requested_params) ==
    IF cached_params = requested_params THEN TRUE
    ELSE _is_subset_filter(FilterOf(cached_params), FilterOf(requested_params))

_matches_filter(item, filter_expr) ==
    /\ HasClause(filter_expr, "type", "==")
           => item.type = FirstValue(filter_expr, "type", "==")
    /\ HasClause(filter_expr, "status", "=in=")
           => item.status \in InValues(FirstValue(filter_expr, "status", "=in="))
    /\ HasClause(filter_expr, "severity", "==")
           => item.severity = FirstValue(filter_expr, "severity", "==")

_subset_data(data, filter_expr) ==
    IF filter_expr = <<>> THEN data
    ELSE SelectSeq(data, LAMBDA item : _matches_filter(item, filter_expr))

\* the value of DataCache.get: [hit |-> FALSE] is None
Miss == [hit |-> FALSE, data |-> <<>>]

Hit(data) == [hit |-> TRUE, data |-> data]

CacheGet(c, q) ==
    LET cache_id == CacheId(q)
        requested_params == _generate_cache_key(q).full_params
    IN IF cache_id \in DOMAIN c
       THEN LET cached_entry == c[cache_id]
            IN IF _can_reuse_data(cached_entry.params, requested_params)
               THEN IF cached_entry.params = requested_params
                    THEN Hit(cached_entry.data)
                    ELSE IF FilterOf(requested_params) # <<>>
                         THEN Hit(_subset_data(cached_entry.data, requested_params.filter))
                         ELSE Miss
               ELSE Miss
       ELSE Miss

CachePut(c, q, data) ==
    LET cache_id == CacheId(q)
        entry == [data |-> data, params |-> _generate_cache_key(q).full_params]
    IN [id \in DOMAIN c \cup {cache_id} |-> IF id = cache_id THEN entry ELSE c[id]]

EmptyCache == [id \in {} |-> Miss]

NoGet ==
    [valid |-> FALSE,
     q |-> [endpoint |-> "", params |-> [filter |-> <<>>]],
     value |-> Miss]

(***************************************************************************)
(* DataTransformer.  A dataset is its set of columns, the columns holding  *)
(* nested mappings, and the list of the steps (by index) applied to it.    *)
(***************************************************************************)
NoError == [raised |-> FALSE, message |-> "", index |-> 0]

\* the dataset of a list of finding records; an empty list has no columns
InputFrame(empty) ==
    [empty |-> empty,
     columns |-> IF empty THEN {} ELSE {"id", "severity", "status", "component"},
     nested |-> IF empty THEN {} ELSE {"component"},
     ops |-> <<>>]

\* records that carry the i_d column the final cleanup of transform() is for
LegacyFrame ==
    [empty |-> FALSE,
     columns |-> {"id", "severity", "status", "component", "i_d"},
     nested |-> {"component"},
     ops |-> <<>>]

\* pd.DataFrame()
EmptyFrame == [empty |-> TRUE, columns |-> {}, nested |-> {}, ops |-> <<>>]

\* the dataset after step k was applied to it, with its new columns
Applied(d, k, columns) ==
    [empty |-> d.empty, columns |-> columns, nested |-> d.nested \cap columns,
     ops |-> Append(d.ops, k)]

Done(d) == [raised |-> FALSE, message |-> "", df |-> d]

Raise(d, message) == [raised |-> TRUE, message |-> message, df |-> d]

Step(kind, cols, index, right, right_on, name) ==
    [kind |-> kind, cols |-> cols, index |-> index, right |-> right,
     right_on |-> right_on, name |-> name]

\* a right key: its name, and for "parent.field" the parent
Key(name, base) == [name |-> name, base |-> base]

StepUniverse ==
    {Step("sort", {"severity"}, "", "", {}, ""),
     Step("sort", {"risk"}, "", "", {}, ""),
     Step("filter", {"status"}, "", "", {}, ""),
     Step("filter", {"risk"}, "", "", {}, ""),
     Step("calc", {"severity"}, "", "", {}, "risk"),
     Step("calc", {"cvss"}, "", "", {}, "risk"),
     Step("group_by", {"severity"}, "", "", {}, ""),
     Step("select", {"id", "risk"}, "", "", {}, ""),
     Step("pivot", {"id", "severity", "status"}, "status", "", {}, ""),
     Step("pivot", {"id", "severity", "risk"}, "severity", "", {}, ""),
     Step("pivot", {"id", "severity", "component"}, "component", "", {}, ""),
     Step("join", {"id"}, "", "projects", {Key("id", "")}, ""),
     Step("join", {"id"}, "", "projects", {Key("project.id", "project")}, ""),
     Step("join", {"id"}, "", "versions", {Key("id", "")}, ""),
     Step("join", {"project"}, "", "projects", {Key("id", "")}, ""),
     Step("join", {"id"}, "", "projects", {Key("version", "")}, ""),
     Step("join", {"id"}, "", "projects", {Key("owner.id", "owner")}, ""),
     Step("transform_function", {}, "", "", {}, "scan_analysis_transform"),
     Step("transform_function", {}, "", "", {}, "failing_transform")}

\* the auxiliary datasets of a recipe, by name, as their columns
AuxiliaryData ==
    {[given |-> FALSE, sources |-> [n \in {} |-> {}]],
     [given |-> TRUE, sources |-> [n \in {} |-> {}]],
     [given |-> TRUE, sources |-> [n \in {"projects"} |-> {"id", "name", "project"}]]}

\* the functions of fs_report.transforms.pandas that return a dataset
WorkingFunctions == {"scan_analysis_transform"}

_apply_sort(d, t, k) ==
    IF t.cols \ d.columns # {}
    THEN Raise(d, "Sort columns not found in data")
    ELSE Done(Applied(d, k, d.columns))

_apply_filter(d, t, k) ==
    IF t.cols \ d.columns # {}
    THEN Raise(d, "Filter failed")
    ELSE Done(Applied(d, k, d.columns))

_apply_calc(d, t, k) ==
    IF t.cols \ d.columns # {}
    THEN Raise(d, "Calculation failed")
    ELSE Done(Applied(d, k, d.columns \cup {t.name}))

_apply_group_by(d, t, k) ==
    IF t.cols \ d.columns # {}
    THEN Raise(d, "KeyError")
    ELSE Done(Applied(d, k, t.cols \cup {"finding_count"}))

_apply_select(d, t, k) ==
    IF t.cols \cap d.columns = {}
    THEN Done(d)
    ELSE Done(Applied(d, k, t.cols \cap d.columns))

\* pivot_table raises for an index of nested mappings (unhashable)
_apply_pivot(d, t, k) ==
    IF t.cols \ d.columns # {}
    THEN Raise(d, "Pivot columns not found in data")
    ELSE IF t.index \in d.nested
         THEN Done(d)
         ELSE Done(Applied(d, k, {t.index, "low", "high"}))

_apply_transform(d, t, k) ==
    LET r == CASE t.kind = "group_by" -> _apply_group_by(d, t, k)
               [] t.kind = "calc" -> _apply_calc(d, t, k)
               [] t.kind = "filter" -> _apply_filter(d, t, k)
               [] t.kind = "sort" -> _apply_sort(d, t, k)
               [] t.kind = "pivot" -> _apply_pivot(d, t, k)
               [] t.kind = "select" -> _apply_select(d, t, k)
               [] OTHER -> Done(d)
    IN IF r.raised THEN Raise(d, "Error applying transform") ELSE r

_apply_join(d, t, ad, k) ==
    IF ~ad.given \/ t.right \notin DOMAIN ad.sources
    THEN Done(d)
    ELSE LET right_columns == ad.sources[t.right]
         IN IF t.cols \ d.columns # {}
            THEN Done(d)
            ELSE IF \E key \in t.right_on :
                        /\ key.name \notin right_columns
                        /\ key.base \notin right_columns
                 THEN Done(d)
                 ELSE Done(Applied(d, k, d.columns \cup right_columns
                                            \cup {key.name : key \in t.right_on}))

_apply_pandas_transform_function(d, t, ad, k) ==
    IF t.name \in WorkingFunctions /\ ad.given
    THEN Done(Applied(d, k, {"date", "total_scans"}))
    ELSE Raise(d, "transform function failed")

\* lines 91-108 with every step applied to the dataset transform() was
\* called with instead of the dataset the step before it left
ApplyOneToInput(d, t, ad, k) ==
    IF t.kind = "transform_function"
    THEN _apply_pandas_transform_function(InputFrame(d.empty), t, ad, k)
    ELSE IF t.kind = "join"
         THEN IF ad.given THEN _apply_join(InputFrame(d.empty), t, ad, k)
              ELSE Done(d)
         ELSE _apply_transform(InputFrame(d.empty), t, k)

\* lines 91-108: one iteration of the loop over the transform list
ApplyOne(d, t, ad, k) ==
    IF t.kind = "transform_function"
    THEN _apply_pandas_transform_function(d, t, ad, k)
    ELSE IF t.kind = "join"
         THEN IF ad.given THEN _apply_join(d, t, ad, k) ELSE Done(d)
         ELSE _apply_transform(d, t, k)

\* lines 113-122: the columns after the final cleanup of the i_d column
FinalCleanup(d) ==
    IF "i_d" \in d.columns
    THEN IF "finding_count" \in d.columns
         THEN [d EXCEPT !.columns = d.columns \ {"i_d"}]
         ELSE [d EXCEPT !.columns = (d.columns \ {"i_d"}) \cup {"finding_count"}]
    ELSE d

\* the step cannot be carried out on the dataset: a column it names is
\* missing, its join source or a join key is missing, its pivot or its
\* function fails
StepFails(d, t, ad) ==
    CASE t.kind \in {"sort", "filter", "calc", "group_by"} -> t.cols \ d.columns # {}
      [] t.kind = "pivot" -> t.cols \ d.columns # {} \/ t.index \in d.nested
      [] t.kind = "join" ->
            \/ ~ad.given
            \/ t.right \notin DOMAIN ad.sources
            \/ t.cols \ d.columns # {}
            \/ \E key \in t.right_on :
                  /\ key.name \notin ad.sources[t.right]
                  /\ key.base \notin ad.sources[t.right]
      [] t.kind = "transform_function" -> ~(t.name \in WorkingFunctions /\ ad.given)
      [] OTHER -> FALSE

RunIdle ==
    /\ loaded = <<>>
    /\ recipe_filter = ""
    /\ recipes = <<>>
    /\ rpc = "idle"
    /\ idx = 0
    /\ rstep = 0
    /\ all_succeeded = TRUE
    /\ generated_files = <<>>
    /\ run_result = FALSE
    /\ events = <<>>
    /\ outcomes = <<>>

\* no step on rows is under way
NoConfig == [kind |-> "none"]

NoOutput == [raised |-> FALSE, rows |-> <<>>]

FrameIdle ==
    /\ frame = <<>>
    /\ step_config = NoConfig
    /\ opc = "idle"
    /\ output = NoOutput

TransformIdle ==
    /\ transforms = <<>>
    /\ additional_data = [given |-> FALSE, sources |-> [n \in {} |-> {}]]
    /\ tpc = "idle"
    /\ step_i = 0
    /\ df = InputFrame(TRUE)
    /\ error = NoError
    /\ failedAt = 0
    /\ input_data = InputFrame(TRUE)
    /\ stepLog = <<>>

(***************************************************************************)
(* Upstream: the HTTP endpoint answering GET with limit and offset         *)
(***************************************************************************)
UpstreamRecords == [i \in 1..upN |-> Rec(i, upIds)]

\* the records the upstream puts in the page at offset off
RawPage(off, lim) ==
    LET recs == UpstreamRecords
        lastWindow == SubSeq(recs, Max(upN - lim, 0) + 1, upN)
        lastPage == SubSeq(recs, ((upN - 1) \div lim) * lim + 1, upN)
    IN IF off < upN
       THEN IF upPastEnd = "clamp" /\ off + lim > upN
            THEN lastWindow
            ELSE SubSeq(recs, off + 1, Min(off + lim, upN))
       ELSE IF upN = 0 \/ upPastEnd = "empty" THEN <<>>
            ELSE IF upPastEnd = "repeat_last" THEN lastPage
            ELSE lastWindow

UpstreamTotal == IF upFormat = "object_bad_total" THEN upN + 1 ELSE upN

(***************************************************************************)
(* APIClient.fetch_data: the list returned for a successful response       *)
(***************************************************************************)
ParseResponse(raw) ==
    IF upFormat = "list" THEN raw
    ELSE IF raw # <<>> THEN raw
    ELSE <<Envelope(UpstreamTotal)>>

(***************************************************************************)
(* APIClient.fetch_all_with_resume                                         *)
(***************************************************************************)
Limit == query.params.limit

PageQuery(q, off) ==
    [q EXCEPT !.params = [k \in DOMAIN q.params \cup {"offset"} |->
                              IF k = "offset" THEN off ELSE q.params[k]]]

NoProgress == [exists |-> FALSE, content |-> "none", offset |-> 0, results |-> <<>>]

Ids(recs) == {recs[i].id : i \in 1..Len(recs)} \ {NoId}

\* the offset the model follows the loop to
OffsetCap == (upN \div Limit) * Limit + 5 * Limit

TransientKinds == {"timeout", "http_5xx", "http_429"}

FatalKinds == {"http_4xx", "malformed_filter"}

\* leaving the loop: the progress file is removed and all_results returned
Finish ==
    /\ pc' = "returned"
    /\ result' = all_results'
    /\ progress_file' = NoProgress

\* the variant that keeps the count of empty pages over a page with records
LoopStepNoReset(off, res, empties, page, lim) ==
    IF page = <<>>
    THEN IF empties + 1 >= max_consecutive_empty
         THEN [stop |-> TRUE, offset |-> off, results |-> res,
               empties |-> empties + 1, appended |-> FALSE]
         ELSE [stop |-> FALSE, offset |-> off + lim, results |-> res,
               empties |-> empties + 1, appended |-> FALSE]
    ELSE IF res # <<>> /\ Ids(page) \cap Ids(res) # {}
         THEN [stop |-> TRUE, offset |-> off, results |-> res,
               empties |-> empties, appended |-> FALSE]
         ELSE [stop |-> FALSE, offset |-> off + lim, results |-> res \o page,
               empties |-> empties, appended |-> TRUE]

\* lines 214-241: the iteration after fetch_data returned page, as the new
\* values of the locals; stop is the break out of the loop
LoopStep(off, res, empties, page, lim) ==
    IF page = <<>>
    THEN IF empties + 1 >= max_consecutive_empty
         THEN [stop |-> TRUE, offset |-> off, results |-> res,
               empties |-> empties + 1, appended |-> FALSE]
         ELSE [stop |-> FALSE, offset |-> off + lim, results |-> res,
               empties |-> empties + 1, appended |-> FALSE]
    ELSE IF res # <<>> /\ Ids(page) \cap Ids(res) # {}
         THEN [stop |-> TRUE, offset |-> off, results |-> res,
               empties |-> 0, appended |-> FALSE]
         ELSE [stop |-> FALSE, offset |-> off + lim, results |-> res \o page,
               empties |-> 0, appended |-> TRUE]

\* lines 243-247: json.dump({"offset": offset, "results": all_results}) to a
\* temporary file that is then moved over the progress file
WriteProgressStale(off, res) ==
    [exists |-> TRUE, content |-> "object", offset |-> Max(off - 1, 0),
     results |-> res]

WriteProgressWithoutPage(off, res) ==
    [exists |-> TRUE, content |-> "object", offset |-> off,
     results |-> SubSeq(res, 1, Len(res) - 1)]

WriteProgress(off, res) ==
    [exists |-> TRUE, content |-> "object", offset |-> off, results |-> res]

\* lines 214-249 and, on break, lines 255-265
ProcessPage(page) ==
    LET s == LoopStep(offset, all_results, consecutive_empty_pages, page, Limit)
    IN /\ retry_count' = 0
       /\ consecutive_empty_pages' = s.empties
       /\ all_results' = s.results
       /\ offset' = s.offset
       /\ IF s.stop
          THEN Finish
          ELSE /\ progress_file' = IF s.appended
                                   THEN WriteProgress(s.offset, s.results)
                                   ELSE progress_file
               /\ UNCHANGED <<pc, result>>

\* lines 144-148: the query is answered by the cache
CallCached ==
    /\ pc \in {"idle", "returned"}
    /\ calls < MaxCalls
    /\ CacheGet(cache, query).hit
    /\ pc' = "returned"
    /\ result' = CacheGet(cache, query).data
    /\ startOffset' = 0
    /\ calls' = calls + 1
    /\ exhausted' = FALSE
    /\ errorFree' = TRUE
    /\ UNCHANGED <<upN, upIds, upFormat, upPastEnd, query, offset, all_results,
                   consecutive_empty_pages, retry_count, cache, progress_file,
                   kills>>
    /\ UNCHANGED nonFetchVars

\* the contents a progress file can have: the JSON object the fetch writes,
\* text that is no JSON (json.load raises JSONDecodeError), bytes that are no
\* text (the read raises UnicodeDecodeError), JSON that is no object
\* (progress.get raises AttributeError)
FileContents == {"object", "truncated", "undecodable", "not_object"}

\* lines 161-173: the locals the progress file seeds, the file afterwards, and
\* whether an exception other than JSONDecodeError leaves the function
ReadProgress(pf) ==
    IF ~pf.exists
    THEN [raised |-> FALSE, offset |-> 0, results |-> <<>>, file |-> pf]
    ELSE CASE pf.content = "object" ->
                [raised |-> FALSE, offset |-> pf.offset, results |-> pf.results,
                 file |-> pf]
           [] pf.content = "truncated" ->
                [raised |-> FALSE, offset |-> 0, results |-> <<>>,
                 file |-> NoProgress]
           [] OTHER ->
                [raised |-> TRUE, offset |-> 0, results |-> <<>>, file |-> pf]

\* lines 150-175: no cache entry; the locals are set, from the progress file
\* when there is one
CallFetch ==
    /\ pc \in {"idle", "returned"}
    /\ calls < MaxCalls
    /\ ~CacheGet(cache, query).hit
    /\ pc' = IF ReadProgress(progress_file).raised THEN "raised" ELSE "loop"
    /\ offset' = ReadProgress(progress_file).offset
    /\ startOffset' = offset'
    /\ all_results' = ReadProgress(progress_file).results
    /\ progress_file' = ReadProgress(progress_file).file
    /\ consecutive_empty_pages' = 0
    /\ retry_count' = 0
    /\ calls' = calls + 1
    /\ exhausted' = FALSE
    /\ errorFree' = TRUE
    /\ result' = <<>>
    /\ UNCHANGED <<upN, upIds, upFormat, upPastEnd, query, cache, kills>>
    /\ UNCHANGED nonFetchVars

\* lines 181-249 with fetch_data answered by the cache (lines 76-79)
PageFromCache ==
    /\ pc = "loop"
    /\ offset < OffsetCap
    /\ CacheGet(cache, PageQuery(query, offset)).hit
    /\ ProcessPage(CacheGet(cache, PageQuery(query, offset)).data)
    /\ UNCHANGED <<upN, upIds, upFormat, upPastEnd, query, cache, calls, kills,
                   errorFree, exhausted, startOffset>>
    /\ UNCHANGED nonFetchVars

\* lines 181-249 with a successful request in fetch_data (lines 102-134)
PageFetched ==
    /\ pc = "loop"
    /\ offset < OffsetCap
    /\ ~CacheGet(cache, PageQuery(query, offset)).hit
    /\ LET page == ParseResponse(RawPage(offset, Limit))
       IN /\ cache' = CachePut(cache, PageQuery(query, offset), page)
          /\ ProcessPage(page)
    /\ UNCHANGED <<upN, upIds, upFormat, upPastEnd, query, calls, kills,
                   errorFree, exhausted, startOffset>>
    /\ UNCHANGED nonFetchVars

\* lines 204-213: the request raised; every exception is handled alike
PageFailed(kind) ==
    /\ pc = "loop"
    /\ offset < OffsetCap
    /\ ~CacheGet(cache, PageQuery(query, offset)).hit
    /\ retry_count' = retry_count + 1
    /\ errorFree' = FALSE
    /\ all_results' = all_results
    /\ IF retry_count' > max_retries
       THEN /\ exhausted' = TRUE
            /\ Finish
       ELSE /\ exhausted' = exhausted
            /\ UNCHANGED <<pc, result, progress_file>>
    /\ UNCHANGED <<upN, upIds, upFormat, upPastEnd, query, offset,
                   consecutive_empty_pages, cache, calls, kills, startOffset>>
    /\ UNCHANGED nonFetchVars

\* the process is killed inside the fetch and started again: memory is lost,
\* the progress file stays
Kill ==
    /\ pc = "loop"
    /\ kills < MaxKills
    /\ kills' = kills + 1
    /\ pc' = "idle"
    /\ cache' = EmptyCache
    /\ offset' = 0
    /\ all_results' = <<>>
    /\ consecutive_empty_pages' = 0
    /\ retry_count' = 0
    /\ calls' = 0
    /\ exhausted' = FALSE
    /\ errorFree' = TRUE
    /\ result' = <<>>
    /\ startOffset' = 0
    /\ UNCHANGED <<upN, upIds, upFormat, upPastEnd, query, progress_file>>
    /\ UNCHANGED nonFetchVars

\* the process is killed while an iteration that appended a page writes the
\* temporary file (lines 243-246, before shutil.move): the half-written
\* temporary file stays, the progress file is the one of the page before
KillWhileWriting ==
    /\ pc = "loop"
    /\ kills < MaxKills
    /\ offset < OffsetCap
    /\ LET hit == CacheGet(cache, PageQuery(query, offset))
           page == IF hit.hit THEN hit.data
                   ELSE ParseResponse(RawPage(offset, Limit))
       IN LoopStep(offset, all_results, consecutive_empty_pages, page, Limit).appended
    /\ temp_file' = "partial"
    /\ kills' = kills + 1
    /\ pc' = "idle"
    /\ cache' = EmptyCache
    /\ offset' = 0
    /\ all_results' = <<>>
    /\ consecutive_empty_pages' = 0
    /\ retry_count' = 0
    /\ calls' = 0
    /\ exhausted' = FALSE
    /\ errorFree' = TRUE
    /\ result' = <<>>
    /\ startOffset' = 0
    /\ UNCHANGED <<upN, upIds, upFormat, upPastEnd, query, progress_file>>
    /\ UNCHANGED <<cacheUseVars, transformVars, runVars, frameVars>>

Queries ==
    {[endpoint |-> "/public/v0/findings", params |-> p] :
        p \in {[filter |-> FDate, limit |-> l] : l \in 1..MaxLimit}
              \cup {[filter |-> FDate, limit |-> l, offset |-> 0] : l \in 1..MaxLimit}}

Init ==
    /\ upN \in 0..MaxRecords
    /\ upIds \in BOOLEAN
    /\ upFormat \in {"list", "object", "object_bad_total"}
    /\ upPastEnd \in {"empty", "repeat_last", "clamp"}
    /\ query \in Queries
    /\ pc = "idle"
    /\ offset = 0
    /\ all_results = <<>>
    /\ consecutive_empty_pages = 0
    /\ retry_count = 0
    /\ result = <<>>
    /\ cache = EmptyCache
    /\ progress_file = NoProgress
    /\ temp_file = "none"
    /\ calls = 0
    /\ kills = 0
    /\ errorFree = TRUE
    /\ exhausted = FALSE
    /\ startOffset = 0
    /\ putLog = <<>>
    /\ lastGet = NoGet
    /\ TransformIdle
    /\ RunIdle
    /\ FrameIdle

Next ==
    \/ CallCached
    \/ CallFetch
    \/ PageFromCache
    \/ PageFetched
    \/ \E kind \in TransientKinds \cup FatalKinds : PageFailed(kind)
    \/ Kill

Spec == Init /\ [][Next]_vars

(***************************************************************************)
(* Restarts: a fetch against an upstream that answers with a JSON array of *)
(* records with ids, started with whatever progress file an earlier run or *)
(* anything else left in the output directory                              *)
(***************************************************************************)
LeftFiles ==
    {NoProgress}
    \cup {[exists |-> TRUE, content |-> c, offset |-> 0, results |-> <<>>] :
              c \in FileContents \ {"object"}}

ResumeInit ==
    /\ upN \in 0..MaxRecords
    /\ upIds = TRUE
    /\ upFormat = "list"
    /\ upPastEnd \in {"empty", "repeat_last", "clamp"}
    /\ query \in Queries
    /\ pc = "idle"
    /\ offset = 0
    /\ all_results = <<>>
    /\ consecutive_empty_pages = 0
    /\ retry_count = 0
    /\ result = <<>>
    /\ cache = EmptyCache
    /\ progress_file \in LeftFiles
    /\ temp_file = "none"
    /\ calls = 0
    /\ kills = 0
    /\ errorFree = TRUE
    /\ exhausted = FALSE
    /\ startOffset = 0
    /\ putLog = <<>>
    /\ lastGet = NoGet
    /\ TransformIdle
    /\ RunIdle
    /\ FrameIdle

ResumeNext ==
    \/ Next
    \/ KillWhileWriting

ResumeSpec == ResumeInit /\ [][ResumeNext]_vars

(***************************************************************************)
(* A caller using the cache: DataCache.put, DataCache.get, DataCache.clear *)
(***************************************************************************)
Findings == "/public/v0/findings"

Components == "/public/v0/components"

CacheQueries ==
    {[endpoint |-> Findings, params |-> [filter |-> f]] :
        f \in {FDate, FDate \o <<SevHigh>>, FDate \o <<TypeCve>>,
               FDate \o <<StatusIn>>, <<DateFromOther, DateTo, SevHigh>>}}
    \cup {[endpoint |-> Findings, params |-> [limit |-> 2]],
          [endpoint |-> Findings, params |-> [filter |-> FDate, offset |-> 0]],
          [endpoint |-> Components, params |-> [filter |-> FDate]]}

CacheData ==
    {<<Rec(1, TRUE), Rec(2, TRUE), Rec(3, TRUE)>>,
     <<Rec(3, TRUE), Rec(1, TRUE)>>,
     <<>>}

Put(q, data) ==
    /\ Len(putLog) < MaxPuts
    /\ cache' = CachePut(cache, q, data)
    /\ putLog' = Append(putLog, [q |-> q, data |-> data])
    /\ lastGet' = NoGet
    /\ UNCHANGED nonCacheVars

Get(q) ==
    /\ lastGet' = [valid |-> TRUE, q |-> q, value |-> CacheGet(cache, q)]
    /\ UNCHANGED <<cache, putLog>>
    /\ UNCHANGED nonCacheVars

Clear ==
    /\ cache # EmptyCache
    /\ cache' = EmptyCache
    /\ putLog' = <<>>
    /\ lastGet' = NoGet
    /\ UNCHANGED nonCacheVars

CacheInit ==
    /\ upN = 0
    /\ upIds = TRUE
    /\ upFormat = "list"
    /\ upPastEnd = "empty"
    /\ query = [endpoint |-> Findings, params |-> [filter |-> FDate, limit |-> 1]]
    /\ pc = "idle"
    /\ offset = 0
    /\ all_results = <<>>
    /\ consecutive_empty_pages = 0
    /\ retry_count = 0
    /\ result = <<>>
    /\ cache = EmptyCache
    /\ progress_file = NoProgress
    /\ temp_file = "none"
    /\ calls = 0
    /\ kills = 0
    /\ errorFree = TRUE
    /\ exhausted = FALSE
    /\ startOffset = 0
    /\ putLog = <<>>
    /\ lastGet = NoGet
    /\ TransformIdle
    /\ RunIdle
    /\ FrameIdle

CacheNext ==
    \/ \E q \in CacheQueries, data \in CacheData : Put(q, data)
    \/ \E q \in CacheQueries : Get(q)
    \/ Clear

CacheSpec == CacheInit /\ [][CacheNext]_vars

\* the puts of the log for query q, and the list the last of them stored
PutsOf(q) == {i \in 1..Len(putLog) : putLog[i].q = q}

LastPut(q) == putLog[CHOOSE i \in PutsOf(q) : \A j \in PutsOf(q) : j <= i].data

\* lines 80-87: transform() is called; no data returns an empty frame
StartTransform ==
    /\ tpc = "idle"
    /\ IF df.empty
       THEN /\ tpc' = "returned"
            /\ df' = EmptyFrame
       ELSE /\ tpc' = "running"
            /\ UNCHANGED df
    /\ UNCHANGED <<transforms, additional_data, step_i, error, failedAt, input_data,
                   stepLog>>
    /\ UNCHANGED nonTransformVars

\* lines 91-111: the next step of the list is applied
ApplyStep ==
    /\ tpc = "running"
    /\ step_i < Len(transforms)
    /\ LET r == ApplyOne(df, transforms[step_i + 1], additional_data, step_i + 1)
       IN /\ step_i' = step_i + 1
          /\ df' = r.df
          /\ stepLog' = Append(stepLog, [index |-> step_i + 1, received |-> df,
                                         produced |-> r.df, raised |-> r.raised])
          /\ failedAt' = IF failedAt = 0 /\ StepFails(df, transforms[step_i + 1], additional_data)
                         THEN step_i + 1 ELSE failedAt
          /\ IF r.raised
             THEN /\ tpc' = "raised"
                  /\ error' = [raised |-> TRUE, message |-> r.message, index |-> 0]
             ELSE UNCHANGED <<tpc, error>>
    /\ UNCHANGED <<transforms, additional_data, input_data>>
    /\ UNCHANGED nonTransformVars

\* lines 113-124: the list is exhausted; final cleanup and return
ReturnFrame ==
    /\ tpc = "running"
    /\ step_i = Len(transforms)
    /\ tpc' = "returned"
    /\ df' = FinalCleanup(df)
    /\ UNCHANGED <<transforms, additional_data, step_i, error, failedAt, input_data,
                   stepLog>>
    /\ UNCHANGED nonTransformVars

TransformLists ==
    UNION {[1..n -> StepUniverse] : n \in 0..MaxSteps}

TransformInit ==
    /\ upN = 0
    /\ upIds = TRUE
    /\ upFormat = "list"
    /\ upPastEnd = "empty"
    /\ query = [endpoint |-> Findings, params |-> [filter |-> FDate, limit |-> 1]]
    /\ pc = "idle"
    /\ offset = 0
    /\ all_results = <<>>
    /\ consecutive_empty_pages = 0
    /\ retry_count = 0
    /\ result = <<>>
    /\ cache = EmptyCache
    /\ progress_file = NoProgress
    /\ temp_file = "none"
    /\ calls = 0
    /\ kills = 0
    /\ errorFree = TRUE
    /\ exhausted = FALSE
    /\ startOffset = 0
    /\ putLog = <<>>
    /\ lastGet = NoGet
    /\ transforms \in TransformLists
    /\ additional_data \in AuxiliaryData
    /\ tpc = "idle"
    /\ step_i = 0
    /\ input_data \in {InputFrame(FALSE), InputFrame(TRUE), LegacyFrame}
    /\ df = input_data
    /\ stepLog = <<>>
    /\ error = NoError
    /\ failedAt = 0
    /\ RunIdle
    /\ FrameIdle

TransformNext ==
    \/ StartTransform
    \/ ApplyStep
    \/ ReturnFrame

TransformSpec == TransformInit /\ [][TransformNext]_vars

(***************************************************************************)
(* ReportEngine.run and ReportEngine._process_recipe.  A recipe is given   *)
(* with what its requests answer and what its renderer does; its transform *)
(* lists are lists of steps of the transformer above.                      *)
(***************************************************************************)
NoSteps == <<>>

\* an entry of recipe.additional_queries and what its request does
AuxQuery(name, response) == [name |-> name, response |-> response]

Recipe(name, primary, additional_queries, open_issues_transform, transform, transform_function, portfolio_transform, render) ==
    [name |-> name, primary |-> primary,
     additional_queries |-> additional_queries,
     open_issues_transform |-> open_issues_transform,
     transform |-> transform, transform_function |-> transform_function,
     portfolio_transform |-> portfolio_transform, render |-> render]

GroupBySeverity == Step("group_by", {"severity"}, "", "", {}, "")

FilterStatus == Step("filter", {"status"}, "", "", {}, "")

FilterRisk == Step("filter", {"risk"}, "", "", {}, "")

JoinProjects == Step("join", {"id"}, "", "projects", {Key("id", "")}, "")

RecipeUniverse ==
    {Recipe("Executive Summary", "records", <<>>, NoSteps, <<GroupBySeverity>>,
            "", NoSteps, "files"),
     Recipe("Executive Summary", "empty", <<>>, NoSteps, <<GroupBySeverity>>,
            "", NoSteps, "files"),
     Recipe("Component List", "raises", <<>>, NoSteps, NoSteps, "", NoSteps,
            "files"),
     Recipe("Findings by Project",
            "records",
            <<AuxQuery("open_issues", "records"), AuxQuery("projects", "records")>>,
            <<FilterStatus>>, <<JoinProjects, GroupBySeverity>>, "",
            <<GroupBySeverity>>, "files"),
     Recipe("Findings by Project", "records",
            <<AuxQuery("projects", "raises"), AuxQuery("open_issues", "empty")>>,
            NoSteps, <<JoinProjects>>, "", NoSteps, "files"),
     Recipe("Component List", "records", <<AuxQuery("open_issues", "records")>>,
            <<FilterRisk>>, NoSteps, "", NoSteps, "files"),
     Recipe("Component List", "records", <<>>, NoSteps, <<FilterRisk>>, "",
            NoSteps, "files"),
     Recipe("Scan Analysis", "records", <<>>, NoSteps, NoSteps,
            "scan_analysis_transform", NoSteps, "no_files"),
     Recipe("Scan Analysis", "records", <<>>, NoSteps, NoSteps,
            "failing_transform", NoSteps, "files"),
     Recipe("Executive Summary", "records", <<>>, NoSteps, <<GroupBySeverity>>,
            "", <<FilterRisk>>, "files"),
     Recipe("Executive Summary", "records", <<>>, NoSteps, <<GroupBySeverity>>,
            "", NoSteps, "raises")}

RecipeFilters == {"", "executive summary", "Triage Prioritization"}

\* str.lower() on the names of the model
Lower(name) ==
    CASE name = "Executive Summary" -> "executive summary"
      [] name = "Alpha" -> "alpha"
      [] name = "Beta" -> "beta"
      [] name = "V1" -> "v1"
      [] name = "V2" -> "v2"
      [] name = "Component List" -> "component list"
      [] name = "Findings by Project" -> "findings by project"
      [] name = "Scan Analysis" -> "scan analysis"
      [] name = "Triage Prioritization" -> "triage prioritization"
      [] OTHER -> name

\* lines 73-85: the recipes the loop goes through
Selected(all, name) ==
    IF name = "" THEN all
    ELSE SelectSeq(all, LAMBDA r : Lower(r.name) = Lower(name))

\* DataTransformer.transform, lines 80-124, as a function of its arguments
RECURSIVE TransformFrom(_, _, _, _)
TransformFrom(d, ts, ad, k) ==
    IF k > Len(ts) THEN Done(FinalCleanup(d))
    ELSE LET r == ApplyOne(d, ts[k], ad, k)
         IN IF r.raised THEN r ELSE TransformFrom(r.df, ts, ad, k + 1)

transform(data_empty, ts, ad) ==
    IF data_empty THEN Done(EmptyFrame)
    ELSE TransformFrom(InputFrame(FALSE), ts, ad, 1)

\* the columns of the records an auxiliary query returns
AuxColumns(name) ==
    IF name = "projects" THEN {"id", "name", "project"}
    ELSE {"id", "severity", "status", "component"}

\* lines 305-311: additional_data before the auxiliary queries
ConfigOnly == [given |-> TRUE, sources |-> [n \in {} |-> {}]]

\* lines 312-392: additional_data when the primary transform list runs
AdditionalData(r) ==
    LET names == {r.additional_queries[i].name : i \in DOMAIN r.additional_queries}
                 \cup (IF r.open_issues_transform # NoSteps
                       THEN {"open_issues"} ELSE {})
    IN [given |-> TRUE, sources |-> [n \in names |-> AuxColumns(n)]]

\* lines 400-408
TransformsToApply(r) ==
    IF r.transform_function # ""
    THEN <<Step("transform_function", {}, "", "", {}, r.transform_function)>>
    ELSE r.transform

Statement(op, name) == [op |-> op, name |-> name]

\* lines 312-375: the loop over recipe.additional_queries.items()
RECURSIVE AuxPlan(_, _)
AuxPlan(r, k) ==
    IF k > Len(r.additional_queries) THEN <<>>
    ELSE LET q == r.additional_queries[k]
         IN <<Statement("fetch_aux", q.name)>>
            \o (IF q.name = "open_issues" /\ r.open_issues_transform # NoSteps
                THEN <<Statement("transform_aux", q.name)>> ELSE <<>>)
            \o AuxPlan(r, k + 1)

\* the order of the statements of _process_recipe (lines 120-467) that
\* request or transform data, the primary transform list before the
\* auxiliary queries
PlanTransformFirst(r) ==
    <<Statement("fetch_primary", ""), Statement("transform", "")>>
    \o AuxPlan(r, 1)
    \o (IF r.open_issues_transform # NoSteps
        THEN <<Statement("open_issues_main", "open_issues")>> ELSE <<>>)
    \o (IF r.portfolio_transform # NoSteps
        THEN <<Statement("portfolio", "")>> ELSE <<>>)

\* the order of the statements of _process_recipe (lines 120-467) that
\* request or transform data
Plan(r) ==
    <<Statement("fetch_primary", "")>>
    \o AuxPlan(r, 1)
    \o (IF r.open_issues_transform # NoSteps
        THEN <<Statement("open_issues_main", "open_issues")>> ELSE <<>>)
    \o <<Statement("transform", "")>>
    \o (IF r.portfolio_transform # NoSteps
        THEN <<Statement("portfolio", "")>> ELSE <<>>)

AuxNamed(r, name) ==
    r.additional_queries[CHOOSE i \in DOMAIN r.additional_queries :
                             r.additional_queries[i].name = name]

\* what a statement of _process_recipe does: "ok" goes on to the next
\* statement, "none" is return None (lines 254-256), "raises" an exception
\* that leaves _process_recipe (lines 469-471)
StatementOutcome(r, st) ==
    CASE st.op = "fetch_primary" ->
            IF r.primary = "raises" THEN "raises"
            ELSE IF r.primary = "empty" THEN "none" ELSE "ok"
      [] st.op = "fetch_aux" ->
            IF AuxNamed(r, st.name).response = "raises" THEN "raises" ELSE "ok"
      [] st.op = "transform_aux" ->
            IF transform(AuxNamed(r, st.name).response = "empty",
                         r.open_issues_transform, ConfigOnly).raised
            THEN "raises" ELSE "ok"
      [] st.op = "open_issues_main" ->
            IF transform(FALSE, r.open_issues_transform, ConfigOnly).raised
            THEN "raises" ELSE "ok"
      [] st.op = "transform" ->
            IF transform(FALSE, TransformsToApply(r), AdditionalData(r)).raised
            THEN "raises" ELSE "ok"
      [] st.op = "portfolio" ->
            IF transform(FALSE, r.portfolio_transform, AdditionalData(r)).raised
            THEN "raises" ELSE "ok"
      [] OTHER -> "ok"

\* lines 94-110: the loop goes on to the next recipe whatever the outcome;
\* here an exception ends the loop
AfterRecipeAbort(i, n, outcome) == IF outcome = "raised" THEN n + 1 ELSE i + 1

\* lines 94-110: the loop goes on to the next recipe whatever the outcome
AfterRecipe(i, n, outcome) == i + 1

\* lines 98-109, with a recipe without report data not counted
SucceededUnlessRaised(flag, outcome) == flag /\ outcome # "raised"

\* lines 98-109: all_succeeded after a recipe that ended with outcome
Succeeded(flag, outcome) == flag /\ outcome = "ok"

\* the end of an iteration of the loop of run(), and lines 111-115 after the
\* last one
EndRecipe(outcome) ==
    /\ outcomes' = Append(outcomes, outcome)
    /\ all_succeeded' = Succeeded(all_succeeded, outcome)
    /\ IF AfterRecipe(idx, Len(recipes), outcome) > Len(recipes)
       THEN /\ rpc' = "done"
            /\ run_result' = all_succeeded'
            /\ UNCHANGED idx
            /\ rstep' = 0
       ELSE /\ rpc' = "processing"
            /\ idx' = AfterRecipe(idx, Len(recipes), outcome)
            /\ rstep' = 1
            /\ UNCHANGED run_result

\* lines 62-92: run() up to its loop
StartRun ==
    /\ rpc = "idle"
    /\ recipes' = IF loaded = <<>> THEN <<>> ELSE Selected(loaded, recipe_filter)
    /\ IF recipes' = <<>>
       THEN /\ rpc' = "done"
            /\ run_result' = FALSE
            /\ UNCHANGED <<idx, rstep>>
       ELSE /\ rpc' = "processing"
            /\ idx' = 1
            /\ rstep' = 1
            /\ UNCHANGED run_result
    /\ all_succeeded' = TRUE
    /\ UNCHANGED <<loaded, recipe_filter, generated_files, events, outcomes>>
    /\ UNCHANGED nonRunVars

\* the next statement of _process_recipe(recipes[idx])
ProcessStatement ==
    /\ rpc = "processing"
    /\ LET r == recipes[idx]
           st == Plan(r)[rstep]
           o == StatementOutcome(r, st)
       IN /\ events' = Append(events, [recipe |-> idx, op |-> st.op, name |-> st.name])
          /\ IF o = "raises" THEN /\ EndRecipe("raised")
                                  /\ UNCHANGED generated_files
             ELSE IF o = "none" THEN /\ EndRecipe("none")
                                     /\ UNCHANGED generated_files
             ELSE IF rstep < Len(Plan(r))
                  THEN /\ rstep' = rstep + 1
                       /\ UNCHANGED <<rpc, idx, all_succeeded, generated_files,
                                      run_result, outcomes>>
                  ELSE /\ rpc' = "rendering"
                       /\ UNCHANGED <<idx, rstep, all_succeeded, generated_files,
                                      run_result, outcomes>>
    /\ UNCHANGED <<loaded, recipe_filter, recipes>>
    /\ UNCHANGED nonRunVars

\* lines 98-102: _process_recipe returned report data; renderer.render
Render ==
    /\ rpc = "rendering"
    /\ events' = Append(events, [recipe |-> idx, op |-> "render", name |-> ""])
    /\ LET r == recipes[idx]
       IN IF r.render = "raises"
          THEN /\ EndRecipe("raised")
               /\ UNCHANGED generated_files
          ELSE /\ EndRecipe("ok")
               /\ generated_files' = IF r.render = "files"
                                     THEN Append(generated_files, idx)
                                     ELSE generated_files
    /\ UNCHANGED <<loaded, recipe_filter, recipes>>
    /\ UNCHANGED nonRunVars

RecipeLists == UNION {[1..n -> RecipeUniverse] : n \in 0..MaxRecipes}

FetchIdle ==
    /\ upN = 0
    /\ upIds = TRUE
    /\ upFormat = "list"
    /\ upPastEnd = "empty"
    /\ query = [endpoint |-> Findings, params |-> [filter |-> FDate, limit |-> 1]]
    /\ pc = "idle"
    /\ offset = 0
    /\ all_results = <<>>
    /\ consecutive_empty_pages = 0
    /\ retry_count = 0
    /\ result = <<>>
    /\ cache = EmptyCache
    /\ progress_file = NoProgress
    /\ temp_file = "none"
    /\ calls = 0
    /\ kills = 0
    /\ errorFree = TRUE
    /\ exhausted = FALSE
    /\ startOffset = 0
    /\ putLog = <<>>
    /\ lastGet = NoGet

RunInit ==
    /\ FetchIdle
    /\ TransformIdle
    /\ FrameIdle
    /\ loaded \in RecipeLists
    /\ recipe_filter \in RecipeFilters
    /\ recipes = <<>>
    /\ rpc = "idle"
    /\ idx = 0
    /\ rstep = 0
    /\ all_succeeded = TRUE
    /\ generated_files = <<>>
    /\ run_result = FALSE
    /\ events = <<>>
    /\ outcomes = <<>>

RunNext ==
    \/ StartRun
    \/ ProcessStatement
    \/ Render

RunSpec == RunInit /\ [][RunNext]_vars

(***************************************************************************)
(* The fetch without interruption and without failing request, as a        *)
(* function of the upstream: the loop of lines 181-249 from offset 0       *)
(***************************************************************************)
RECURSIVE RunLoop(_, _, _)
RunLoop(off, res, empties) ==
    IF off >= OffsetCap THEN [done |-> FALSE, results |-> res]
    ELSE LET s == LoopStep(off, res, empties, ParseResponse(RawPage(off, Limit)), Limit)
         IN IF s.stop THEN [done |-> TRUE, results |-> s.results]
            ELSE RunLoop(s.offset, s.results, s.empties)

UninterruptedFetch == RunLoop(0, <<>>, 0)

\* the offset of the first page that lies past the end of the upstream set
EndOffset == ((upN + Limit - 1) \div Limit) * Limit

Occurrences(seq, x) == Cardinality({i \in 1..Len(seq) : seq[i] = x})

(***************************************************************************)
(* Claims                                                                  *)
(***************************************************************************)

\* C1: the pagination loop terminates for every finite upstream: it returns
\* at the latest on the third page past the end of the record set, so it
\* never requests a page at an offset more than max_consecutive_empty pages
\* past that end (past it every page is the same answer, and a loop that has
\* not stopped by then never stops).
C1_LoopTerminates ==
    pc = "loop" => offset <= EndOffset + max_consecutive_empty * Limit

\* C2: when the first call of a process returns and none of its page requests
\* has failed, the returned list holds every upstream record exactly once and
\* nothing else.
C2_ReturnsEveryRecordOnce ==
    (pc = "returned" /\ calls = 1 /\ errorFree) =>
        /\ \A i \in 1..Len(result) : result[i] \in Range(UpstreamRecords)
        /\ \A k \in 1..upN : Occurrences(result, UpstreamRecords[k]) = 1

\* C3: a fetch that was killed after N checkpointed pages and started again
\* with the same query returns the list the uninterrupted fetch returns.
C3_ResumeEqualsUninterrupted ==
    (pc = "returned" /\ kills > 0 /\ calls = 1 /\ ~exhausted) =>
        /\ UninterruptedFetch.done
        /\ result = UninterruptedFetch.results

\* a killed fetch resumed from a checkpoint holding at least one page, and
\* returned more than the checkpoint held
C3_Witness ==
    /\ pc = "returned" /\ kills > 0 /\ calls = 1 /\ ~exhausted
    /\ startOffset > 0
    /\ Len(result) > startOffset

\* C7: once the retry budget is exceeded the fetch raises (it does not return
\* the accumulated list), and it raises only then.
C7_ExhaustedBudgetRaises ==
    /\ exhausted => pc = "raised"
    /\ pc = "raised" => exhausted

\* C9: no cache entry's params hold an offset, and page queries that differ
\* only in offset have one cache key.
C9_NoOffsetInCacheParams ==
    cache # EmptyCache =>
    /\ \A id \in DOMAIN cache : "offset" \notin DOMAIN cache[id].params
    /\ CacheId(PageQuery(query, 0)) = CacheId(PageQuery(query, Limit))

\* C10: a step in which the request for a page fails non-transiently ends the
\* fetch with an error at once: the fetch is not left in its loop to request
\* the page again.
C10_FatalNotRetried ==
    [][(\E kind \in FatalKinds : PageFailed(kind)) => pc' = "raised"]_vars

\* the parameters other than the filter
OtherParams(params) == [k \in DOMAIN params \ {"filter"} |-> params[k]]

\* filter f2 is filter f1 followed by further field-equality or =in= clauses
IsRestriction(f1, f2) ==
    /\ Len(f2) > Len(f1)
    /\ SubSeq(f2, 1, Len(f1)) = f1
    /\ \A i \in (Len(f1) + 1)..Len(f2) : f2[i].op \in {"==", "=in="}

\* the record satisfies the clause "field==value" or "field=in=(v1,v2)"
Satisfies(item, c) ==
    IF c.op = "==" THEN item[c.f] = c.v
    ELSE IF c.op = "=in=" THEN item[c.f] \in InValues(c.v)
    ELSE TRUE

SatisfiesAll(item, clauses) == \A c \in clauses : Satisfies(item, c)

RequestedParams == _generate_cache_key(lastGet.q).full_params

\* neither identical parameters nor a cached filter contained in the requested one
Ambiguous(cached_params, requested_params) ==
    /\ cached_params # requested_params
    /\ ~(Range(FilterOf(cached_params)) \subseteq Range(FilterOf(requested_params)))

\* C4: after put(q, R), with no later put of q and no clear, get(q) returns
\* exactly R whatever was put or got for other queries in between.
C4_GetReturnsLastPut ==
    (lastGet.valid /\ PutsOf(lastGet.q) # {}) =>
        lastGet.value = Hit(LastPut(lastGet.q))

\* q was put, then another query was put, then get(q) returned a non-empty list
C4_Witness ==
    /\ lastGet.valid
    /\ Len(putLog) = 2
    /\ putLog[1].q = lastGet.q
    /\ putLog[2].q # lastGet.q
    /\ putLog[2].data # putLog[1].data
    /\ lastGet.value.hit
    /\ lastGet.value.data # <<>>

\* C5: with an entry cached for filter F1 (and none for F2 itself), get for
\* the same endpoint and parameters with F2 = F1 plus field-equality clauses
\* returns exactly the cached records satisfying the added clauses.
C5_SubsetServedFromCache ==
    lastGet.valid =>
        \A id \in DOMAIN cache :
            ( /\ id.endpoint = lastGet.q.endpoint
              /\ CacheId(lastGet.q) \notin DOMAIN cache
              /\ OtherParams(cache[id].params) = OtherParams(RequestedParams)
              /\ "filter" \in DOMAIN cache[id].params
              /\ IsRestriction(cache[id].params.filter, FilterOf(RequestedParams)) )
            => lastGet.value =
                  Hit(SelectSeq(cache[id].data,
                        LAMBDA item : SatisfiesAll(item,
                            Range(FilterOf(RequestedParams))
                                \ Range(cache[id].params.filter))))

\* C6: a get that returns records returns the list stored for identical
\* parameters, or the records satisfying the requested filter out of an entry
\* whose filter clauses are all part of the requested filter; for every other
\* pair of cached and requested parameters the reuse decision is negative and
\* get returns none.
C6_NeverServesWrongSet ==
    /\ (lastGet.valid /\ lastGet.value.hit) =>
          \E id \in DOMAIN cache :
              /\ id.endpoint = lastGet.q.endpoint
              /\ \/ /\ cache[id].params = RequestedParams
                    /\ lastGet.value.data = cache[id].data
                 \/ /\ Range(FilterOf(cache[id].params))
                          \subseteq Range(FilterOf(RequestedParams))
                    /\ lastGet.value.data =
                          SelectSeq(cache[id].data,
                              LAMBDA item : SatisfiesAll(item,
                                  Range(FilterOf(RequestedParams))))
    /\ \A id \in DOMAIN cache : \A q \in CacheQueries :
          Ambiguous(cache[id].params, _generate_cache_key(q).full_params)
              => ~_can_reuse_data(cache[id].params, _generate_cache_key(q).full_params)
    /\ ( /\ lastGet.valid
         /\ \A id \in DOMAIN cache :
               \/ id.endpoint # lastGet.q.endpoint
               \/ Ambiguous(cache[id].params, RequestedParams) )
          => ~lastGet.value.hit

\* C8: when a step of the transform list fails, transform() returns no
\* dataset and does not go on to the next step: it raises an error that
\* carries the index of the failing step.
C8_FailingStepRaisesWithIndex ==
    /\ tpc \in {"running", "returned"} => failedAt = 0
    /\ tpc = "raised" => (failedAt # 0 /\ error.index = failedAt)

\* C16 as stated: whenever a progress file exists during the loop, it holds
\* the accumulated list and the offset of the next page to request.
C16_CheckpointIsLoopState ==
    (pc = "loop" /\ progress_file.exists) =>
        /\ progress_file.content = "object"
        /\ progress_file.results = all_results
        /\ progress_file.offset = offset

\* C16 amended: whenever a progress file exists during the loop, it is the
\* complete JSON object written after a page was appended: its results are
\* the accumulated list and its offset was the offset of the next page when
\* it was written, the loop being one page further for every empty page it
\* met since; a restarted process never finds a half-written progress file.
C16_CheckpointFollowsAppend ==
    /\ (pc = "loop" /\ progress_file.exists) =>
          /\ progress_file.content = "object"
          /\ progress_file.results = all_results
          /\ progress_file.results # <<>>
          /\ progress_file.offset >= Limit
          /\ offset = progress_file.offset + consecutive_empty_pages * Limit
    /\ (kills > 0 /\ progress_file.exists) => progress_file.content = "object"

C16_Witness ==
    /\ pc = "loop"
    /\ progress_file.exists
    /\ kills > 0
    /\ temp_file = "partial"
    /\ startOffset > 0
    /\ consecutive_empty_pages > 0

\* C17: a call that finds a progress file holding the JSON object seeds its
\* loop with the file's offset and results; a call that finds a progress file
\* with any other content removes it and starts its loop at offset 0 with no
\* records, and does not fail.
C17_CorruptCheckpointDiscarded ==
    [][CallFetch =>
          IF ~progress_file.exists THEN TRUE
          ELSE IF progress_file.content = "object"
               THEN /\ pc' = "loop"
                    /\ offset' = progress_file.offset
                    /\ all_results' = progress_file.results
               ELSE /\ pc' = "loop"
                    /\ offset' = 0
                    /\ all_results' = <<>>
                    /\ ~progress_file'.exists]_vars

\* C11 as stated: run() returns False if processing or rendering a recipe
\* raised, if a recipe produced no report data, or if no recipe was loaded,
\* and True otherwise.
C11_RunReportsSuccess ==
    rpc = "done" =>
        run_result = ~( \/ loaded = <<>>
                        \/ \E i \in DOMAIN outcomes : outcomes[i] \in {"raised", "none"} )

\* C11 amended: run() returns False if processing or rendering a recipe
\* raised, if a recipe produced no report data, if no recipe was loaded, or
\* if the recipe filter matches none of the loaded recipes, and True
\* otherwise.
C11_RunReportsSuccessOfSelected ==
    rpc = "done" =>
        run_result = ~( \/ loaded = <<>>
                        \/ Selected(loaded, recipe_filter) = <<>>
                        \/ \E i \in DOMAIN outcomes : outcomes[i] \in {"raised", "none"} )

C11_Witness ==
    /\ rpc = "done"
    /\ run_result
    /\ recipe_filter # ""
    /\ Len(recipes) = 2
    /\ Len(loaded) = 2
    /\ Len(generated_files) = 2

\* C12: when run() is done, the processing of every selected recipe was
\* started exactly once, in list order, and has ended, whatever the outcome
\* of the recipes before it; the statements of one recipe are not mixed with
\* those of another.
C12_EveryRecipeProcessedOnce ==
    rpc = "done" =>
        LET starts == SelectSeq(events, LAMBDA e : e.op = "fetch_primary")
        IN /\ Len(starts) = Len(recipes)
           /\ \A i \in DOMAIN starts : starts[i].recipe = i
           /\ Len(outcomes) = Len(recipes)
           /\ \A j, k \in DOMAIN events : j < k => events[j].recipe <= events[k].recipe

C12_Witness ==
    /\ rpc = "done"
    /\ Len(recipes) = 2
    /\ outcomes = <<"raised", "ok">>
    /\ \E j \in DOMAIN events : events[j].recipe = 1 /\ events[j].op = "transform"

\* C14: within one recipe the auxiliary queries are fetched in declaration
\* order, the transform list of an auxiliary query runs right after its
\* fetch, and when the first step of the primary transform list runs every
\* auxiliary query has been fetched and transformed.
C14_AuxiliaryBeforePrimary ==
    \A i \in DOMAIN recipes :
        LET mine == SelectSeq(events, LAMBDA e : e.recipe = i)
            fetched == SelectSeq(mine, LAMBDA e : e.op = "fetch_aux")
            declared == recipes[i].additional_queries
        IN /\ Len(fetched) <= Len(declared)
           /\ \A k \in DOMAIN fetched : fetched[k].name = declared[k].name
           /\ \A k \in DOMAIN mine :
                 /\ mine[k].op = "transform_aux" =>
                       /\ k > 1
                       /\ mine[k - 1].op = "fetch_aux"
                       /\ mine[k - 1].name = mine[k].name
                 /\ mine[k].op = "transform" =>
                       /\ Len(SelectSeq(SubSeq(mine, 1, k),
                                        LAMBDA e : e.op = "fetch_aux")) = Len(declared)
                       /\ \A j \in DOMAIN mine :
                             mine[j].op \in {"fetch_aux", "transform_aux"} => j < k
                       /\ (recipes[i].open_issues_transform # NoSteps
                           /\ \E q \in DOMAIN declared : declared[q].name = "open_issues")
                             => \E j \in 1..k : mine[j].op = "transform_aux"

C14_Witness ==
    \E k \in DOMAIN events :
        /\ events[k].op = "transform"
        /\ Len(recipes[events[k].recipe].additional_queries) = 2
        /\ \E j \in 1..k : events[j].op = "transform_aux"
                           /\ events[j].recipe = events[k].recipe

\* C15: processing a recipe whose primary query yields no records returns
\* none without raising, a failing transform list makes it raise, none is
\* returned in no other case, and a run whose recipes all ended with a report
\* or with none (no data) is not a failed run.
C15_NoDataIsNotAnError ==
    rpc = "done" =>
        /\ \A i \in DOMAIN outcomes :
              /\ recipes[i].primary = "empty" => outcomes[i] = "none"
              /\ outcomes[i] = "none" => recipes[i].primary = "empty"
              /\ ( /\ recipes[i].primary = "records"
                   /\ transform(FALSE, TransformsToApply(recipes[i]),
                                AdditionalData(recipes[i])).raised )
                    => outcomes[i] = "raised"
        /\ ( /\ recipes # <<>>
             /\ \A i \in DOMAIN outcomes : outcomes[i] \in {"ok", "none"} )
              => run_result

\* C13 as stated: when transform() returns, every step of the list was
\* applied exactly once, in list order, each to the dataset the step before
\* it produced (the first to the input), and the returned dataset is the
\* output of the last step.
C13_StepsAppliedInOrder ==
    tpc = "returned" =>
        /\ Len(stepLog) = Len(transforms)
        /\ \A k \in DOMAIN stepLog :
              /\ stepLog[k].index = k
              /\ stepLog[k].received = IF k = 1 THEN input_data
                                       ELSE stepLog[k - 1].produced
        /\ df = IF stepLog = <<>> THEN input_data
                ELSE stepLog[Len(stepLog)].produced

\* C13 amended: for a non-empty input, when transform() returns it has gone
\* through every step of the list exactly once, in list order, each step
\* receiving the dataset the step before it left (the first the input) and
\* leaving it as it was or with itself applied on top, and the returned
\* dataset is the one the last step left, with its i_d column dropped or
\* renamed to finding_count; for an empty input no step is applied and an
\* empty dataset is returned.
C13_StepsAppliedInOrderToData ==
    /\ (tpc = "returned" /\ input_data.empty) =>
          /\ stepLog = <<>>
          /\ df = EmptyFrame
    /\ (tpc = "returned" /\ ~input_data.empty) =>
          LET last == IF stepLog = <<>> THEN input_data
                      ELSE stepLog[Len(stepLog)].produced
          IN /\ Len(stepLog) = Len(transforms)
             /\ \A k \in DOMAIN stepLog :
                   /\ stepLog[k].index = k
                   /\ stepLog[k].received = IF k = 1 THEN input_data
                                            ELSE stepLog[k - 1].produced
                   /\ stepLog[k].produced.ops
                         \in {stepLog[k].received.ops,
                              Append(stepLog[k].received.ops, k)}
             /\ df.ops = last.ops
             /\ "i_d" \notin df.columns
             /\ df.columns \ {"finding_count"} = last.columns \ {"i_d", "finding_count"}
             /\ "finding_count" \in df.columns
                   <=> (last.columns \cap {"i_d", "finding_count"} # {})

C13_Witness ==
    /\ tpc = "returned"
    /\ input_data = LegacyFrame
    /\ Len(transforms) = 2
    /\ df.ops = <<1, 2>>
    /\ "finding_count" \in df.columns
    /\ stepLog[2].received.columns # input_data.columns

(***************************************************************************)
(* DataTransformer._apply_group_by and _apply_sort on rows.                *)
(* A DataFrame is the sequence of its rows.  A row is a record of its      *)
(* index label (the position the row had when the frame was built) and of  *)
(* its columns severity, status (object dtype) and cvss (numeric dtype).   *)
(***************************************************************************)
FrameColumns == {"severity", "status", "cvss"}

\* the missing value of an object column and the one of a numeric column;
\* a number n of a numeric column is <<n>>
None == "<None>"

NaN == <<>>

Number(n) == <<n>>

Row(i, severity, status, cvss) ==
    [index |-> i, severity |-> severity, status |-> status, cvss |-> cvss]

\* the frames of at most MaxRows rows with cells from the given sets
Frames(severities, statuses, scores) ==
    UNION {{[i \in 1..n |-> Row(i - 1, f[i][1], f[i][2], f[i][3])] :
               f \in [1..n -> severities \X statuses \X scores]} :
           n \in 0..MaxRows}

Raised == [raised |-> TRUE, rows |-> <<>>]

\* the order of Python on the strings that occur (code points, so upper
\* case before lower case)
Lexical(v) ==
    CASE v = "0" -> 0
      [] v = "0.0" -> 1
      [] v = "1" -> 2
      [] v = "1.0" -> 3
      [] v = "2" -> 4
      [] v = "2.0" -> 5
      [] v = "None" -> 6
      [] v = "Unknown" -> 7
      [] v = "critical" -> 8
      [] v = "fixed" -> 9
      [] v = "high" -> 10
      [] v = "info" -> 11
      [] v = "low" -> 12
      [] v = "medium" -> 13
      [] v = "nan" -> 14
      [] v = "open" -> 15

\* the order of tuples of numbers of equal length
RECURSIVE Less(_, _)
Less(a, b) ==
    /\ a # <<>>
    /\ \/ Head(a) < Head(b)
       \/ Head(a) = Head(b) /\ Less(Tail(a), Tail(b))

(***************************************************************************)
(* _apply_group_by                                                         *)
(***************************************************************************)
\* an entry of GroupByConfig.aggs: 'name: "FUNC:column"', or 'name: "FUNC"'
\* (column "" here), which aggregates the column called name
Agg(name, func, column) == [name |-> name, func |-> func, column |-> column]

GroupByConfig(keys, aggs) == [kind |-> "group_by", keys |-> keys, aggs |-> aggs]

\* the columns cleaned before grouping
AllColumns(columns, custom_aggs) ==
    Range(columns) \cup {"risk", "status", "component", "severity", "month_year"}
        \cup {custom_aggs[i].name : i \in DOMAIN custom_aggs}

is_numeric_dtype(col) == col = "cvss"

\* the null dropping variant: the missing values are left in place
FillNaNot(col, v) == v

\* fillna(0) of a numeric column, fillna("Unknown") of any other
FillNa(col, v) ==
    IF is_numeric_dtype(col)
    THEN IF v = NaN THEN Number(0) ELSE v
    ELSE IF v = None THEN "Unknown" ELSE v

\* a numeric column with a missing value is a float64 column, any other
\* an int64 column
IsFloat(d, col) == \E i \in DOMAIN d : d[i][col] = NaN

\* str of a number of a float64 column and of an int64 column
Text(n, float) ==
    CASE n = 0 -> IF float THEN "0.0" ELSE "0"
      [] n = 1 -> IF float THEN "1.0" ELSE "1"
      [] n = 2 -> IF float THEN "2.0" ELSE "2"

\* astype(str): of an object column, a string is kept and None becomes
\* "None"; of a numeric column, the text of the number, "nan" for NaN
AsStr(col, v, float) ==
    IF is_numeric_dtype(col)
    THEN IF v = NaN THEN "nan" ELSE Text(v[1], float)
    ELSE IF v = None THEN "None" ELSE v

CleanRow(d, row, columns, custom_aggs) ==
    [c \in DOMAIN row |->
        IF c \in FrameColumns /\ c \in AllColumns(columns, custom_aggs)
        THEN IF c \in Range(columns)
             THEN AsStr(c, FillNa(c, row[c]), IsFloat(d, c))
             ELSE FillNa(c, row[c])
        ELSE row[c]]

df_clean(d, columns, custom_aggs) ==
    [i \in DOMAIN d |-> CleanRow(d, d[i], columns, custom_aggs)]

\* the pandas function of an aggregation name; "" when the code has no
\* branch for the name
PandasFunc(func) ==
    CASE func = "SUM" -> "sum"
      [] func = "MAX" -> "max"
      [] func = "MIN" -> "min"
      [] OTHER -> ""

SourceColumn(a) == IF a.column # "" THEN a.column ELSE a.name

\* agg_dict: a dictionary keyed by the aggregated column, so that a later
\* entry of aggs on a column replaces an earlier one on the same column
RECURSIVE AggDict(_)
AggDict(custom_aggs) ==
    IF custom_aggs = <<>> THEN [c \in {} |-> ""]
    ELSE LET a == custom_aggs[Len(custom_aggs)]
             before == AggDict(SubSeq(custom_aggs, 1, Len(custom_aggs) - 1))
         IN IF SourceColumn(a) \in FrameColumns /\ PandasFunc(a.func) # ""
            THEN (SourceColumn(a) :> PandasFunc(a.func)) @@ before
            ELSE before

RECURSIVE SumCells(_)
SumCells(cells) ==
    IF cells = <<>> THEN 0
    ELSE (IF Head(cells) = NaN THEN 0 ELSE Head(cells)[1]) + SumCells(Tail(cells))

\* the aggregations of pandas skip the missing values; the sum of none is
\* 0, the maximum and the minimum of none are missing
Aggregate(func, cells) ==
    LET present == {cells[i][1] : i \in {j \in DOMAIN cells : cells[j] # NaN}}
    IN CASE func = "sum" -> Number(SumCells(cells))
         [] func = "max" ->
              IF present = {} THEN NaN
              ELSE Number(CHOOSE m \in present : \A o \in present : o <= m)
         [] func = "min" ->
              IF present = {} THEN NaN
              ELSE Number(CHOOSE m \in present : \A o \in present : m <= o)

\* "_".join(col) of a column name that is a string puts an underscore
\* between its characters
Underscored(col) ==
    CASE col = "cvss" -> "c_v_s_s"
      [] col = "severity" -> "s_e_v_e_r_i_t_y"
      [] col = "status" -> "s_t_a_t_u_s"

KeyOf(row, columns) == [i \in DOMAIN columns |-> row[columns[i]]]

KeyRanks(key) == [i \in DOMAIN key |-> Lexical(key[i])]

\* the group keys in the order groupby(sort=True) puts them
RECURSIVE SortedKeys(_)
SortedKeys(S) ==
    IF S = {} THEN <<>>
    ELSE LET m == CHOOSE k \in S :
                     \A o \in S \ {k} : Less(KeyRanks(k), KeyRanks(o))
         IN <<m>> \o SortedKeys(S \ {m})

GroupOf(d, columns, key) ==
    SelectSeq(d, LAMBDA row : KeyOf(row, columns) = key)

\* the row of a group: its key, the aggregated columns under the names
\* the flattening leaves them, and the size of the group
GroupRow(d, columns, agg_dict, key) ==
    LET rows == GroupOf(d, columns, key)
    IN [key |-> key,
        values |-> [n \in {Underscored(c) : c \in DOMAIN agg_dict} |->
                      LET c == CHOOSE c \in DOMAIN agg_dict : Underscored(c) = n
                      IN Aggregate(agg_dict[c],
                                   [i \in DOMAIN rows |-> rows[i][c]])],
        finding_count |-> Len(rows)]

\* a key column that is not in the frame raises ValueError; groupby([])
\* raises "No group keys passed!".  After astype(str) no key is missing, so
\* groupby, which leaves out the rows with a missing key, leaves out none.
\* The frames have no column risk: without custom aggregations agg_dict is
\* empty and the result is groupby(columns).size()
apply_group_by(d, group_by_config) ==
    LET columns == group_by_config.keys
        custom_aggs == group_by_config.aggs
    IN IF \E i \in DOMAIN columns : columns[i] \notin FrameColumns THEN Raised
       ELSE IF columns = <<>> THEN Raised
       ELSE LET clean == df_clean(d, columns, custom_aggs)
                agg_dict == AggDict(custom_aggs)
                keys == SortedKeys({KeyOf(clean[i], columns) : i \in DOMAIN clean})
            IN [raised |-> FALSE,
                rows |-> [g \in DOMAIN keys |->
                            GroupRow(clean, columns, agg_dict, keys[g])]]

nonFrameVars == <<fetchLocals, cache, cacheUseVars, transformVars, temp_file,
                  runVars>>

ApplyGroupBy ==
    /\ opc = "ready"
    /\ step_config.kind = "group_by"
    /\ output' = apply_group_by(frame, step_config)
    /\ opc' = "done"
    /\ UNCHANGED <<frame, step_config>>
    /\ UNCHANGED nonFrameVars

GroupByKeys ==
    {<<"severity">>, <<"status">>, <<"severity", "status">>, <<"component">>, <<>>}

GroupByAggs ==
    {<<>>,
     <<Agg("total", "SUM", "cvss")>>,
     <<Agg("cvss", "SUM", "")>>,
     <<Agg("total", "SUM", "cvss"), Agg("worst", "MAX", "cvss")>>,
     <<Agg("worst", "MAX", "cvss"), Agg("total", "SUM", "cvss")>>}

\* the column cvss is a key only of group-bys that do not aggregate
GroupByConfigs ==
    {GroupByConfig(k, a) : k \in GroupByKeys, a \in GroupByAggs}
        \cup {GroupByConfig(<<"cvss">>, <<>>), GroupByConfig(<<"status", "cvss">>, <<>>)}

GroupFrames ==
    Frames({"high", "Unknown", None}, {"open", None}, {NaN, Number(1), Number(2)})

GroupInit ==
    /\ FetchIdle
    /\ TransformIdle
    /\ RunIdle
    /\ frame \in GroupFrames
    /\ step_config \in GroupByConfigs
    /\ opc = "ready"
    /\ output = NoOutput

GroupNext == ApplyGroupBy

GroupSpec == GroupInit /\ [][GroupNext]_vars

(***************************************************************************)
(* Claims on _apply_group_by                                               *)
(***************************************************************************)
\* the aggregations of the step that ask for the sum of the column cvss
AsksSumOfCvss ==
    \E i \in DOMAIN step_config.aggs :
        /\ step_config.aggs[i].func = "SUM"
        /\ SourceColumn(step_config.aggs[i]) = "cvss"

\* C18: for a group-by with a SUM aggregation on the numeric column cvss,
\* the values of the aggregated column summed over all output groups equal
\* the sum of cvss over all input rows, missing values counting as 0
C18_SumRoundTrip ==
    (opc = "done" /\ step_config.kind = "group_by" /\ ~output.raised
        /\ AsksSumOfCvss)
    => /\ \A g \in DOMAIN output.rows :
             Underscored("cvss") \in DOMAIN output.rows[g].values
       /\ SumCells([g \in DOMAIN output.rows |->
                       output.rows[g].values[Underscored("cvss")]])
          = SumCells([i \in DOMAIN frame |-> frame[i].cvss])

\* the key tuple of an input row, a missing key standing for its fill value
\* in the canonical string form of the grouping
FilledKey(row, columns) ==
    [i \in DOMAIN columns |->
        LET v == row[columns[i]]
        IN IF is_numeric_dtype(columns[i])
           THEN Text(IF v = NaN THEN 0 ELSE v[1], IsFloat(frame, columns[i]))
           ELSE IF v = None THEN "Unknown" ELSE v]

RECURSIVE SumCounts(_)
SumCounts(groups) ==
    IF groups = <<>> THEN 0
    ELSE Head(groups).finding_count + SumCounts(Tail(groups))

\* C19: group-by drops no row: every output group carries the number of
\* input rows that have its key tuple as finding_count (a missing key
\* counting as the fill value), every key tuple of the input has exactly
\* one output row, and the finding_count values sum to the input row count
C19_NoRowDropped ==
    (opc = "done" /\ step_config.kind = "group_by" /\ ~output.raised)
    => LET columns == step_config.keys
           groups == output.rows
       IN /\ \A g \in DOMAIN groups :
                groups[g].finding_count
                = Cardinality({i \in DOMAIN frame :
                                  FilledKey(frame[i], columns) = groups[g].key})
          /\ \A i \in DOMAIN frame :
                \E g \in DOMAIN groups : groups[g].key = FilledKey(frame[i], columns)
          /\ \A g, h \in DOMAIN groups : groups[g].key = groups[h].key => g = h
          /\ SumCounts(groups) = Len(frame)

\* two rows, one without severity and one with the severity "Unknown",
\* have been grouped by severity and status into one group of two
C19_Witness ==
    /\ opc = "done"
    /\ step_config.kind = "group_by"
    /\ step_config.keys = <<"severity", "status">>
    /\ ~output.raised
    /\ Len(frame) = 2
    /\ frame[1].severity = None
    /\ frame[2].severity = "Unknown"
    /\ Len(output.rows) = 1
    /\ output.rows[1].finding_count = 2

(***************************************************************************)
(* _apply_sort                                                             *)
(***************************************************************************)
SortConfig(sort, ascending) == [kind |-> "sort", sort |-> sort, ascending |-> ascending]

\* severity_order, and fillna(99) for a severity the mapping does not have
SeverityOrder(v) ==
    CASE v = "critical" -> 0
      [] v = "high" -> 1
      [] v = "medium" -> 2
      [] v = "low" -> 3
      [] OTHER -> 99

\* the list of columns sort_values is given: the temporary column
\* _severity_order in the place of severity
SortCols(sort) ==
    [i \in DOMAIN sort |->
        IF sort[i] = "severity" THEN "_severity_order" ELSE sort[i]]

\* the value sort_values compares in a column, as a number
SortValue(row, col) ==
    CASE col = "_severity_order" -> SeverityOrder(row.severity)
      [] col = "cvss" -> row.cvss[1]
      [] OTHER -> Lexical(row[col])

SortKey(row, sort_cols) == [i \in DOMAIN sort_cols |-> SortValue(row, sort_cols[i])]

\* row a may stand before row b in the output
InOrder(a, b, sort_cols, ascending) ==
    IF ascending THEN ~Less(SortKey(b, sort_cols), SortKey(a, sort_cols))
    ELSE ~Less(SortKey(a, sort_cols), SortKey(b, sort_cols))

RowOrders(n) ==
    {p \in [1..n -> 1..n] : \A i, j \in 1..n : p[i] = p[j] => i = j}

\* DataFrame.sort_values(by, ascending) with the default kind="quicksort".
\* For several columns pandas sorts with a stable lexicographic sort.  For
\* one column it sorts with numpy's quicksort, which is not stable: rows
\* with equal values may come out in any order.
sort_values(d, by, ascending) ==
    LET n == Len(d)
        stable == Len(by) > 1
        orders == {p \in RowOrders(n) :
                     \A i, j \in 1..n :
                        i < j =>
                          /\ InOrder(d[p[i]], d[p[j]], by, ascending)
                          /\ (stable /\ SortKey(d[p[i]], by) = SortKey(d[p[j]], by))
                                => p[i] < p[j]}
    IN {[i \in 1..n |-> d[p[i]]] : p \in orders}

\* the results _apply_sort may return; a sort column that is not in the
\* frame raises ValueError
apply_sort(d, sort_config) ==
    IF \E i \in DOMAIN sort_config.sort : sort_config.sort[i] \notin FrameColumns
    THEN {Raised}
    ELSE {[raised |-> FALSE, rows |-> rows] :
             rows \in sort_values(d, SortCols(sort_config.sort),
                                  sort_config.ascending)}

ApplySort ==
    /\ opc = "ready"
    /\ step_config.kind = "sort"
    /\ output' \in apply_sort(frame, step_config)
    /\ opc' = "done"
    /\ UNCHANGED <<frame, step_config>>
    /\ UNCHANGED nonFrameVars

SortLists ==
    {<<"severity">>, <<"status">>, <<"severity", "status">>,
     <<"status", "severity">>, <<"risk">>}

SortFrames ==
    Frames({"critical", "high", "medium", "low", "info"}, {"open", "fixed"},
           {Number(1)})

SortInit ==
    /\ FetchIdle
    /\ TransformIdle
    /\ RunIdle
    /\ frame \in SortFrames
    /\ step_config \in {SortConfig(s, a) : s \in SortLists, a \in BOOLEAN}
    /\ opc = "ready"
    /\ output = NoOutput

SortNext == ApplySort

SortSpec == SortInit /\ [][SortNext]_vars

(***************************************************************************)
(* Claims on _apply_sort                                                   *)
(***************************************************************************)
\* C20: an ascending sort that names the column severity puts the rows in
\* the order critical, high, medium, low, then the rows of any other
\* severity; rows with equal sort keys keep their original relative order,
\* for one sort column and for several; the output is a permutation of
\* the input rows
C20_SeverityOrderStable ==
    (opc = "done" /\ step_config.kind = "sort" /\ ~output.raised
        /\ "severity" \in Range(step_config.sort) /\ step_config.ascending)
    => LET by == SortCols(step_config.sort)
           out == output.rows
       IN /\ Len(out) = Len(frame)
          /\ \A i \in DOMAIN frame : \E j \in DOMAIN out : out[j] = frame[i]
          /\ \A i, j \in DOMAIN out :
                i < j =>
                  /\ ~Less(SortKey(out[j], by), SortKey(out[i], by))
                  /\ SortKey(out[i], by) = SortKey(out[j], by)
                        => out[i].index < out[j].index

(***************************************************************************)
(* _apply_pivot                                                            *)
(***************************************************************************)
PivotConfig(index, columns, values) ==
    [kind |-> "pivot", index |-> index, columns |-> columns, values |-> values]

\* the rows pivot_table aggregates: it groups by the index and the columns
\* column, and a group-by leaves out the rows with a missing key
PivotRows(d, pivot_config) ==
    SelectSeq(d, LAMBDA row : /\ row[pivot_config.index] # None
                              /\ row[pivot_config.columns] # None)

\* the values of a column in sorted order, without repetition
SortedValues(d, col) ==
    LET keys == SortedKeys({<<d[i][col]>> : i \in DOMAIN d})
    IN [k \in DOMAIN keys |-> keys[k][1]]

\* aggfunc="sum" over the rows of a combination, after fillna(0) of the
\* values column; fill_value=0 for a combination without rows
PivotCell(d, pivot_config, index_value, column_value) ==
    SumCells(LET rows == SelectSeq(d, LAMBDA row :
                            /\ row[pivot_config.index] = index_value
                            /\ row[pivot_config.columns] = column_value)
             IN [i \in DOMAIN rows |-> rows[i][pivot_config.values]])

severity_order == <<"low", "medium", "high", "critical">>

\* [idx_col] + present + others
NewOrder(idx_col, cols) ==
    LET present == SelectSeq(severity_order, LAMBDA s : s \in Range(cols))
        others == SelectSeq(cols, LAMBDA c : c \notin Range(present) /\ c # idx_col)
    IN <<idx_col>> \o present \o others

\* the except branch: the frame the step was given is returned
Fallback(d) ==
    [raised |-> FALSE, fallback |-> TRUE,
     columns |-> <<"severity", "status", "cvss">>, rows |-> d]

\* the results _apply_pivot may return.  A column of the configuration that
\* is not in the frame raises ValueError.  When no row is left to
\* aggregate, pivot_table and reset_index either give a frame without rows
\* or raise, depending on the version of pandas; what they raise is caught.
apply_pivot(d, pivot_config) ==
    IF {pivot_config.index, pivot_config.columns, pivot_config.values}
          \ FrameColumns # {}
    THEN {Raised}
    ELSE LET kept == PivotRows(d, pivot_config)
             index_values == SortedValues(kept, pivot_config.index)
             column_values == SortedValues(kept, pivot_config.columns)
             pivoted ==
                [raised |-> FALSE, fallback |-> FALSE,
                 columns |-> NewOrder(pivot_config.index,
                                      <<pivot_config.index>> \o column_values),
                 rows |-> [k \in DOMAIN index_values |->
                             [key |-> index_values[k],
                              cells |-> [c \in Range(column_values) |->
                                           PivotCell(kept, pivot_config,
                                                     index_values[k], c)]]]]
         IN IF kept = <<>> THEN {pivoted, Fallback(d)} ELSE {pivoted}

ApplyPivot ==
    /\ opc = "ready"
    /\ step_config.kind = "pivot"
    /\ output' \in apply_pivot(frame, step_config)
    /\ opc' = "done"
    /\ UNCHANGED <<frame, step_config>>
    /\ UNCHANGED nonFrameVars

PivotConfigs ==
    {PivotConfig("status", "severity", "cvss"),
     PivotConfig("severity", "status", "cvss"),
     PivotConfig("project", "severity", "cvss")}

PivotFrames ==
    Frames({"low", "critical", "info", None}, {"open", "fixed", None},
           {NaN, Number(1)})

PivotInit ==
    /\ FetchIdle
    /\ TransformIdle
    /\ RunIdle
    /\ frame \in PivotFrames
    /\ step_config \in PivotConfigs
    /\ opc = "ready"
    /\ output = NoOutput

PivotNext == ApplyPivot

PivotSpec == PivotInit /\ [][PivotNext]_vars

(***************************************************************************)
(* Claims on _apply_pivot                                                  *)
(***************************************************************************)
\* the values of a column of the input, a missing value being none
ValuesOf(col) == {frame[i][col] : i \in DOMAIN frame} \ {None}

\* the position of a column in the output, 0 when the output has no such
\* column
ColumnAt(name) ==
    IF name \in Range(output.columns)
    THEN CHOOSE k \in DOMAIN output.columns : output.columns[k] = name
    ELSE 0

\* C21: the pivot has one row per distinct index value and one column per
\* distinct value of the columns column; each cell is the sum of the values
\* of its combination, 0 for a combination the input does not have; the
\* columns named after a severity follow the index column in the order
\* low, medium, high, critical and precede every other column
C21_PivotFillAndOrder ==
    (opc = "done" /\ step_config.kind = "pivot" /\ ~output.raised)
    => LET index == step_config.index
           columns == step_config.columns
           rows == output.rows
           present == SelectSeq(severity_order, LAMBDA s : s \in ValuesOf(columns))
       IN /\ ~output.fallback
          /\ {rows[k].key : k \in DOMAIN rows} = ValuesOf(index)
          /\ \A k, l \in DOMAIN rows : rows[k].key = rows[l].key => k = l
          /\ Range(output.columns) = {index} \cup ValuesOf(columns)
          /\ Len(output.columns) = 1 + Cardinality(ValuesOf(columns))
          /\ \A k \in DOMAIN rows :
                /\ DOMAIN rows[k].cells = ValuesOf(columns)
                /\ \A c \in DOMAIN rows[k].cells :
                      rows[k].cells[c]
                      = SumCells(LET of == SelectSeq(frame, LAMBDA row :
                                              /\ row[index] = rows[k].key
                                              /\ row[columns] = c)
                                 IN [i \in DOMAIN of |-> of[i][step_config.values]])
          /\ output.columns[1] = index
          /\ \A p \in DOMAIN present : ColumnAt(present[p]) = 1 + p

(***************************************************************************)
(* models.Transform: the variants of a step, its validation, and the       *)
(* choice of the handler in DataTransformer.transform and _apply_transform *)
(***************************************************************************)
TransformFields ==
    {"group_by", "string_agg", "calc", "filter", "sort", "pivot", "join",
     "select", "flatten", "rename", "transform_function"}

\* a step as written in a recipe: the fields that are given a value
TransformOf(populated) == [kind |-> "transform", populated |-> populated]

\* the field validator, called for each field with its value (given: the
\* value is not None): every branch returns the value, none raises
validate_single_transform(field_name, given) ==
    [raised |-> FALSE, given |-> given]

\* the model is built when no validator raises
Accepted(t) ==
    \A f \in TransformFields :
        ~validate_single_transform(f, f \in t.populated).raised

\* transform() looks at transform_function and join, _apply_transform at
\* the other fields in the order of its if/elif chain
HandlerOrder ==
    <<"transform_function", "join", "group_by", "string_agg", "calc", "filter",
      "sort", "pivot", "select", "flatten", "rename">>

\* the handler that is run: the first populated field in that order,
\* "none" (a warning, the frame unchanged) when no field is populated
Handler(t) ==
    IF t.populated = {} THEN "none"
    ELSE HandlerOrder[CHOOSE k \in DOMAIN HandlerOrder :
                         /\ HandlerOrder[k] \in t.populated
                         /\ \A j \in 1..(k - 1) : HandlerOrder[j] \notin t.populated]

ValidateTransform ==
    /\ opc = "ready"
    /\ step_config.kind = "transform"
    /\ opc' = IF Accepted(step_config) THEN "validated" ELSE "rejected"
    /\ UNCHANGED <<frame, step_config, output>>
    /\ UNCHANGED nonFrameVars

ChooseHandler ==
    /\ opc = "validated"
    /\ step_config.kind = "transform"
    /\ output' = [raised |-> FALSE, rows |-> <<>>, handler |-> Handler(step_config),
                  ignored |-> step_config.populated \ {Handler(step_config)}]
    /\ opc' = "done"
    /\ UNCHANGED <<frame, step_config>>
    /\ UNCHANGED nonFrameVars

ValidateInit ==
    /\ FetchIdle
    /\ TransformIdle
    /\ RunIdle
    /\ frame = <<>>
    /\ step_config \in {TransformOf(p) : p \in SUBSET TransformFields}
    /\ opc = "ready"
    /\ output = NoOutput

ValidateNext ==
    \/ ValidateTransform
    \/ ChooseHandler

ValidateSpec == ValidateInit /\ [][ValidateNext]_vars

\* C22: a step that validation has accepted has exactly one variant
\* populated, so that the engine never chooses among several populated
\* fields of a step
C22_ExactlyOneVariant ==
    (step_config.kind = "transform" /\ opc \in {"validated", "done"})
    => /\ Cardinality(step_config.populated) = 1
       /\ opc = "done" => output.ignored = {}

(***************************************************************************)
(* _apply_pandas_transform_function: the calls of the transform function   *)
(***************************************************************************)
\* the calling forms in the order they are tried: with config and
\* additional_data, with config only, with the data only
CallForms == <<"full", "config", "bare">>

\* a signature is the set of calling forms it accepts, for example
\* f(data, config=None, additional_data=None) and f(data, config) and f(data)
Signatures ==
    {{"full", "config", "bare"}, {"full"}, {"config", "bare"}, {"config"}, {"bare"}}

\* what the body of the function does when it is entered
BodyOutcomes == {"ok", "TypeError", "ValueError"}

\* a custom step: the signature of the function, what its body does at its
\* first, second and third invocation, and whether additional_data is given
CustomStep(signature, body, given) ==
    [kind |-> "custom", signature |-> signature, body |-> body, given |-> given]

\* one call in the form CallForms[k].  The arguments are evaluated first:
\* additional_data.get('config') raises AttributeError when additional_data
\* is None (forms full and config).  A form the signature does not accept
\* raises TypeError without entering the function.  Otherwise the function
\* is entered and its body decides.
CallOutcome(step, k, invocations) ==
    IF CallForms[k] # "bare" /\ ~step.given
    THEN [entered |-> FALSE, error |-> "AttributeError"]
    ELSE IF CallForms[k] \notin step.signature
    THEN [entered |-> FALSE, error |-> "TypeError"]
    ELSE [entered |-> TRUE,
          error |-> IF step.body[invocations + 1] = "ok" THEN ""
                    ELSE step.body[invocations + 1]]

\* except TypeError: the next form is tried after any TypeError
TriesNext(call, k) == call.error = "TypeError" /\ k < Len(CallForms)

\* output.invoked is the history of the invocations that entered the function
CallFunction(k) ==
    /\ step_config.kind = "custom"
    /\ opc = (IF k = 1 THEN "ready" ELSE CallForms[k])
    /\ LET invocations == IF k = 1 THEN <<>> ELSE output.invoked
           call == CallOutcome(step_config, k, Len(invocations))
           invoked == IF call.entered
                    THEN Append(invocations,
                                [form |-> CallForms[k], error |-> call.error])
                    ELSE invocations
       IN IF TriesNext(call, k)
          THEN /\ opc' = CallForms[k + 1]
               /\ output' = [raised |-> FALSE, rows |-> <<>>, invoked |-> invoked,
                             error |-> ""]
          ELSE /\ opc' = "done"
               /\ output' = [raised |-> call.error # "", rows |-> <<>>,
                             invoked |-> invoked, error |-> call.error]
    /\ UNCHANGED <<frame, step_config>>
    /\ UNCHANGED nonFrameVars

CustomInit ==
    /\ FetchIdle
    /\ TransformIdle
    /\ RunIdle
    /\ frame = <<>>
    /\ step_config \in {CustomStep(s, b, g) :
                          s \in Signatures, b \in [1..3 -> BodyOutcomes],
                          g \in BOOLEAN}
    /\ opc = "ready"
    /\ output = NoOutput

CustomNext == \E k \in DOMAIN CallForms : CallFunction(k)

CustomSpec == CustomInit /\ [][CustomNext]_vars

\* the positions of the calling forms
FormIndex(form) == CHOOSE k \in DOMAIN CallForms : CallForms[k] = form

\* C23: the function is called in the forms full, config, bare, in this
\* order; an error raised by the function itself, of any type, ends the
\* step with that error, and the function is not invoked again
C23_FunctionErrorPropagated ==
    (step_config.kind = "custom" /\ opc # "ready")
    => LET invoked == output.invoked
       IN /\ \A i, j \in DOMAIN invoked :
                i < j => FormIndex(invoked[i].form) < FormIndex(invoked[j].form)
          /\ \A i \in DOMAIN invoked :
                invoked[i].error # "" =>
                   /\ i = Len(invoked)
                   /\ opc = "done"
                   /\ output.raised
                   /\ output.error = invoked[i].error

(***************************************************************************)
(* FiniteStateReporter (fs-reporter): the paginated getters and            *)
(* lookup_version_id_by_names.  A response is its status code and its JSON *)
(* body: a bare list of items, or an object with items and total.          *)
(***************************************************************************)
API_PAGE_SIZE == 5000

Response(status_code, shape, items, total) ==
    [status_code |-> status_code, shape |-> shape, items |-> items, total |-> total]

ItemLists(universe) == UNION {[1..n -> universe] : n \in 0..MaxItems}

\* the responses with items of the universe: 200 with a list, 200 with an
\* object, 404 and 500 (their bodies are not read)
Responses(universe) ==
    {Response(200, "list", items, 0) : items \in ItemLists(universe)}
        \cup {Response(200, "object", items, total) :
                 items \in ItemLists(universe), total \in 0..(MaxItems + 1)}
        \cup {Response(404, "list", <<>>, 0), Response(500, "list", <<>>, 0)}

\* response.raise_for_status()
RaisesForStatus(response) == response.status_code >= 400

\* the variant that answers every 404 with the empty list
Handles404Always(method) == TRUE

\* the getters that return [] for a 404 before raise_for_status
Handles404(method) == method \in {"get_version_components", "get_version_findings"}

\* one of get_all_projects, get_project_versions, get_version_components,
\* get_version_findings against an endpoint that answers with response.
\* The loop ends with the first page when the page is shorter than limit or
\* reaches total; a page has at most MaxItems < API_PAGE_SIZE items
GetPaged(method, response) ==
    IF response.status_code = 404 /\ Handles404(method)
    THEN [raised |-> FALSE, error |-> "", items |-> <<>>]
    ELSE IF RaisesForStatus(response)
    THEN [raised |-> TRUE, error |-> "HTTPError", items |-> <<>>]
    ELSE LET batch == response.items
             total == IF response.shape = "list" THEN Len(batch) ELSE response.total
             last == 0 + Len(batch) >= total \/ Len(batch) < API_PAGE_SIZE
         IN [raised |-> FALSE, error |-> "", items |-> batch, last |-> last]

\* a project and a version as the API returns them; the name of a project
\* may be null; a version may be a bare string
Project(id, name) == [id |-> id, name |-> name]

Version(id, version) == [kind |-> "dict", id |-> id, version |-> version]

VersionString(version) == [kind |-> "str", id |-> 0, version |-> version]

\* str() of the ids that occur
ToStr(id) ==
    CASE id = 1 -> "1"
      [] id = 2 -> "2"
      [] id = 3 -> "3"
      [] id = 10 -> "10"
      [] id = 11 -> "11"

\* the first project whose name is given and equals project_name without
\* regard to case; <<>> when there is none
MatchingProject(projects, project_name) ==
    LET hits == SelectSeq(projects, LAMBDA p :
                    p.name # None /\ Lower(p.name) = Lower(project_name))
    IN IF hits = <<>> THEN <<>> ELSE <<Head(hits)>>

\* the first version whose name equals version_name without regard to
\* case; a bare string is its own id
MatchingVersion(versions, version_name) ==
    LET hits == SelectSeq(versions, LAMBDA v : Lower(v.version) = Lower(version_name))
    IN IF hits = <<>> THEN <<>>
       ELSE IF Head(hits).kind = "str" THEN <<[id |-> Head(hits).version]>>
       ELSE <<[id |-> ToStr(Head(hits).id)]>>

Lookup(project_name, version_name, found, listing, versions) ==
    [kind |-> "lookup", project_name |-> project_name,
     version_name |-> version_name, found |-> found, listing |-> listing,
     versions |-> versions]

LookupResult(exception, mentions, value) ==
    [raised |-> exception # "", rows |-> <<>>, error |-> exception,
     mentions |-> mentions, value |-> value]

\* lines 149-170: the request for the projects with the name, and the
\* search for the project in its answer
FindProject ==
    /\ step_config.kind = "lookup"
    /\ opc = "ready"
    /\ IF RaisesForStatus(step_config.found)
       THEN /\ opc' = "done"
            /\ output' = LookupResult("HTTPError", {}, "")
       ELSE /\ opc' = IF MatchingProject(step_config.found.items,
                                         step_config.project_name) = <<>>
                      THEN "not_found" ELSE "found"
            /\ output' = LookupResult("", {}, "")
    /\ UNCHANGED <<frame, step_config>>
    /\ UNCHANGED nonFrameVars

\* lines 172-177: no project matched.  get_all_projects() is called for
\* the message; ', '.join of the names raises TypeError when a name is None
ProjectNotFound ==
    /\ step_config.kind = "lookup"
    /\ opc = "not_found"
    /\ LET all_projects == GetPaged("get_all_projects", step_config.listing)
       IN output' =
            IF all_projects.raised THEN LookupResult(all_projects.error, {}, "")
            ELSE IF \E i \in DOMAIN all_projects.items : all_projects.items[i].name = None
            THEN LookupResult("TypeError", {}, "")
            ELSE LookupResult("ValueError",
                              {step_config.project_name, "not found"}
                                 \cup {all_projects.items[i].name :
                                         i \in DOMAIN all_projects.items},
                              "")
    /\ opc' = "done"
    /\ UNCHANGED <<frame, step_config>>
    /\ UNCHANGED nonFrameVars

\* lines 179-216: the versions of the project and the search among them
FindVersion ==
    /\ step_config.kind = "lookup"
    /\ opc = "found"
    /\ LET versions == GetPaged("get_project_versions", step_config.versions)
           matching_version ==
              MatchingVersion(versions.items, step_config.version_name)
       IN output' =
            IF versions.raised THEN LookupResult(versions.error, {}, "")
            ELSE IF matching_version = <<>>
            THEN LookupResult("ValueError",
                              {step_config.version_name, step_config.project_name,
                               "not found"}, "")
            ELSE LookupResult("", {}, matching_version[1].id)
    /\ opc' = "done"
    /\ UNCHANGED <<frame, step_config>>
    /\ UNCHANGED nonFrameVars

LookupProjects == {Project(1, "Alpha"), Project(2, "Beta"), Project(3, None)}

LookupVersions == {Version(10, "v1"), Version(11, "V2"), VersionString("v3")}

LookupInit ==
    /\ FetchIdle
    /\ TransformIdle
    /\ RunIdle
    /\ frame = <<>>
    /\ step_config \in
          {Lookup(p, v, found, listing, versions) :
              p \in {"alpha", "Gamma"}, v \in {"V1", "v3"},
              found \in {r \in Responses(LookupProjects) : r.shape = "list"},
              listing \in {r \in Responses(LookupProjects) : r.shape = "list"},
              versions \in {r \in Responses(LookupVersions) : r.shape = "list"}}
    /\ opc = "ready"
    /\ output = NoOutput

LookupNext ==
    \/ FindProject
    \/ ProjectNotFound
    \/ FindVersion

LookupSpec == LookupInit /\ [][LookupNext]_vars

\* the project of the answer is named as asked, the version of the answer
\* is named as asked
NamedAs(name, asked) == name # None /\ Lower(name) = Lower(asked)

\* C24: the lookup returns the id, as a string, of the version of the name
\* asked in the project of the name asked, case apart; when no project has
\* the name it raises ValueError with the project name and 'not found';
\* when the project has no version of the name it raises ValueError with
\* the version name and the project name
C24_LookupResult ==
    (step_config.kind = "lookup" /\ opc = "done"
        /\ ~RaisesForStatus(step_config.found))
    => LET projects == step_config.found.items
           versions == step_config.versions.items
           project_name == step_config.project_name
           version_name == step_config.version_name
           has_project == \E i \in DOMAIN projects : NamedAs(projects[i].name, project_name)
           has_version == \E i \in DOMAIN versions : NamedAs(versions[i].version, version_name)
       IN /\ ~has_project =>
                /\ output.error = "ValueError"
                /\ {project_name, "not found"} \subseteq output.mentions
          /\ (has_project /\ ~RaisesForStatus(step_config.versions) /\ ~has_version) =>
                /\ output.error = "ValueError"
                /\ {version_name, project_name} \subseteq output.mentions
          /\ (has_project /\ ~RaisesForStatus(step_config.versions) /\ has_version) =>
                /\ ~output.raised
                /\ \E i \in DOMAIN versions :
                      /\ NamedAs(versions[i].version, version_name)
                      /\ output.value = (IF versions[i].kind = "str"
                                         THEN versions[i].version
                                         ELSE ToStr(versions[i].id))

(***************************************************************************)
(* The four getters of FiniteStateReporter, each against one endpoint      *)
(***************************************************************************)
Getters ==
    {"get_all_projects", "get_project_versions", "get_version_components",
     "get_version_findings"}

GetterCall(method, response) == [kind |-> "get", method |-> method, response |-> response]

CallGetter ==
    /\ step_config.kind = "get"
    /\ opc = "ready"
    /\ output' = GetPaged(step_config.method, step_config.response)
    /\ opc' = "done"
    /\ UNCHANGED <<frame, step_config>>
    /\ UNCHANGED nonFrameVars

GetterInit ==
    /\ FetchIdle
    /\ TransformIdle
    /\ RunIdle
    /\ frame = <<>>
    /\ step_config \in {GetterCall(m, r) : m \in Getters, r \in Responses(LookupProjects)}
    /\ opc = "ready"
    /\ output = NoOutput

GetterNext == CallGetter

GetterSpec == GetterInit /\ [][GetterNext]_vars

EmptyAnswer ==
    /\ pc = "loop"
    /\ offset < OffsetCap
    /\ ~CacheGet(cache, PageQuery(query, offset)).hit
    /\ LET page == ParseResponse(<<>>)
       IN /\ cache' = CachePut(cache, PageQuery(query, offset), page)
          /\ ProcessPage(page)
    /\ UNCHANGED <<upN, upIds, upFormat, upPastEnd, query, calls, kills,
                   errorFree, exhausted, startOffset>>
    /\ UNCHANGED nonFetchVars

GapNext ==
    \/ CallFetch
    \/ PageFromCache
    \/ PageFetched
    \/ EmptyAnswer

GapSpec == Init /\ [][GapNext]_vars

\* what an iteration that received page does to the counter, the offset
\* and the loop
LoopTurn(page) ==
    IF page = <<>>
    THEN /\ consecutive_empty_pages' = consecutive_empty_pages + 1
         /\ IF consecutive_empty_pages' >= 3
            THEN pc' = "returned"
            ELSE pc' = "loop" /\ offset' = offset + Limit
    ELSE consecutive_empty_pages' = 0

\* C26: the loop stops on the third consecutive empty page and not before:
\* an empty page adds 1 to the counter and the next request is made limit
\* further, a page with records sets the counter to 0, and no request is
\* made once the counter is 3
C26_StopsOnThirdEmptyPage ==
    /\ [](pc = "loop" => consecutive_empty_pages < 3)
    /\ [][/\ PageFetched => LoopTurn(ParseResponse(RawPage(offset, Limit)))
          /\ PageFromCache => LoopTurn(CacheGet(cache, PageQuery(query, offset)).data)
          /\ EmptyAnswer => LoopTurn(ParseResponse(<<>>))]_vars

\* a fetch whose first request was answered without records although the
\* upstream has records, which then received records, has stopped on three
\* empty pages in a row
C26_Witness ==
    /\ pc = "returned"
    /\ consecutive_empty_pages = 3
    /\ all_results # <<>>
    /\ all_results[1].kind = "record"
    /\ all_results[1].rid > 1

\* C27: the checkpoint is removed when the fetch completes, and only then:
\* after a return that followed the end of the pages no checkpoint file is
\* left, while after a return that followed the exhaustion of the retry
\* budget the checkpoint last written is still in place
C27_CheckpointKeptOnExhaustion ==
    (pc = "returned" /\ ~CacheGet(cache, query).hit)
    => IF exhausted
       THEN all_results # <<>> =>
               /\ progress_file.exists
               /\ progress_file.results = all_results
       ELSE ~progress_file.exists

\* C28: in one run against an unchanged upstream a call of
\* fetch_all_with_resume that is answered by the cache returns the list the
\* call before it returned for the same query, never a single page of it
C28_CachedCallReturnsSameSet ==
    [][(pc = "returned" /\ CallCached) => result' = result]_vars

(***************************************************************************)
(* Runs with different queries on one endpoint: the upstream answers with  *)
(* the records that satisfy the filter of the query; a run killed inside   *)
(* the fetch is followed by a run whose recipe or period, and so whose     *)
(* filter, may be another one.  The progress file is named after the       *)
(* endpoint alone (lines 157-160) and holds offset and results (line 245). *)
(***************************************************************************)
FSev == FDate \o <<SevHigh>>

SeedQueries ==
    {[endpoint |-> Findings, params |-> [filter |-> f, limit |-> l]] :
        f \in {FDate, FSev}, l \in 1..MaxLimit}

\* the records the upstream has for the filter
Served(filter) ==
    SelectSeq(UpstreamRecords, LAMBDA r : SatisfiesAll(r, Range(filter)))

\* the page of them at offset off
ServedPage(filter, off, lim) ==
    SubSeq(Served(filter), off + 1, Min(off + lim, Len(Served(filter))))

\* lines 181-249 with a successful request in fetch_data (lines 102-134)
FilteredPageFetched ==
    /\ pc = "loop"
    /\ offset < OffsetCap
    /\ ~CacheGet(cache, PageQuery(query, offset)).hit
    /\ LET page == ParseResponse(ServedPage(query.params.filter, offset, Limit))
       IN /\ cache' = CachePut(cache, PageQuery(query, offset), page)
          /\ ProcessPage(page)
    /\ UNCHANGED <<upN, upIds, upFormat, upPastEnd, query, calls, kills,
                   errorFree, exhausted, startOffset>>
    /\ UNCHANGED nonFetchVars

\* the process is killed inside the fetch and the program is started again
\* for query q: memory is lost, the progress file stays
Restart(q) ==
    /\ pc = "loop"
    /\ kills < MaxKills
    /\ kills' = kills + 1
    /\ query' = q
    /\ pc' = "idle"
    /\ cache' = EmptyCache
    /\ offset' = 0
    /\ all_results' = <<>>
    /\ consecutive_empty_pages' = 0
    /\ retry_count' = 0
    /\ calls' = 0
    /\ exhausted' = FALSE
    /\ errorFree' = TRUE
    /\ result' = <<>>
    /\ startOffset' = 0
    /\ UNCHANGED <<upN, upIds, upFormat, upPastEnd, progress_file>>
    /\ UNCHANGED nonFetchVars

SeedInit ==
    /\ upN \in 0..MaxRecords
    /\ upIds = TRUE
    /\ upFormat = "list"
    /\ upPastEnd = "empty"
    /\ query \in SeedQueries
    /\ pc = "idle"
    /\ offset = 0
    /\ all_results = <<>>
    /\ consecutive_empty_pages = 0
    /\ retry_count = 0
    /\ result = <<>>
    /\ cache = EmptyCache
    /\ progress_file = NoProgress
    /\ temp_file = "none"
    /\ calls = 0
    /\ kills = 0
    /\ errorFree = TRUE
    /\ exhausted = FALSE
    /\ startOffset = 0
    /\ putLog = <<>>
    /\ lastGet = NoGet
    /\ TransformIdle
    /\ RunIdle
    /\ FrameIdle

SeedNext ==
    \/ CallFetch
    \/ PageFromCache
    \/ FilteredPageFetched
    \/ \E q \in SeedQueries : Restart(q)

SeedSpec == SeedInit /\ [][SeedNext]_vars

\* C29: a checkpoint written while fetching one query never seeds the fetch
\* of another: the list returned for a query holds only records the upstream
\* has for the filter of that query
C29_NoForeignCheckpoint ==
    pc = "returned" =>
        \A i \in 1..Len(result) : SatisfiesAll(result[i], Range(query.params.filter))

(***************************************************************************)
(* ReportEngine._process_recipe, lines 265-310: project_name is set on the *)
(* findings the fetch returned.  The records are Python dicts: fetch_data  *)
(* returns the list it has just stored in the cache, or the list the cache *)
(* holds (api_client.py 76-79, 114), and all_results.extend(page) keeps    *)
(* the dicts of the page (line 240), so a record of the returned list and  *)
(* the record of the cache entry of its page are one object.               *)
(***************************************************************************)
ProjectQuery == [endpoint |-> "/public/v0/projects", params |-> [limit |-> 1000, offset |-> 0]]

\* the projects the upstream lists: project 2 has no name
ProjectList == <<[kind |-> "project", id |-> "1", name |-> "Alpha"], [kind |-> "project", id |-> "2", name |-> ""]>>

\* str() of the 'project' field of the finding
ProjectField(finding) == IF finding.rid % 2 = 1 THEN "1" ELSE "2"

\* lines 283-289: the names of the projects that have an id and a name
project_map(projects) ==
    [pid \in {projects[i].id : i \in {j \in 1..Len(projects) : projects[j].name # ""}}
        |-> (CHOOSE p \in Range(projects) : p.id = pid /\ p.name # "").name]

\* project_map.get(pid_str, pid_str)
ProjectNameOf(finding, projects) ==
    IF ProjectField(finding) \in DOMAIN project_map(projects)
    THEN project_map(projects)[ProjectField(finding)]
    ELSE ProjectField(finding)

\* lines 292-310: finding["project_name"] = ... on the dict itself
InjectProjectName(finding, projects) ==
    [f \in DOMAIN finding \cup {"project_name"} |->
        IF f = "project_name" THEN ProjectNameOf(finding, projects) ELSE finding[f]]

InjectAll(findings, projects) ==
    [i \in DOMAIN findings |-> InjectProjectName(findings[i], projects)]

\* the cache entries whose records are the dicts of the returned list: the
\* pages of the query (against an upstream that answers past the end with
\* an empty page every page with records was appended to the list)
HoldsReturnedRecords(id) ==
    \E off \in 0..OffsetCap : off % Limit = 0 /\ id = CacheId(PageQuery(query, off))

\* lines 265-310 for a recipe that groups by project_name, after the fetch
\* returned raw_data: the projects are fetched with fetch_data, which answers
\* from the cache or stores its page in it, and every finding is given its
\* project_name
InjectProjectNames ==
    /\ pc = "returned"
    /\ result # <<>>
    /\ LET hit == CacheGet(cache, ProjectQuery)
           projects == IF hit.hit THEN hit.data ELSE ProjectList
           stored == IF hit.hit THEN cache ELSE CachePut(cache, ProjectQuery, ProjectList)
       IN /\ result' = InjectAll(result, projects)
          /\ all_results' = result'
          /\ cache' = [id \in DOMAIN stored |->
                          IF HoldsReturnedRecords(id)
                          THEN [stored[id] EXCEPT !.data = InjectAll(@, projects)]
                          ELSE stored[id]]
    /\ UNCHANGED <<upN, upIds, upFormat, upPastEnd, query, pc, offset,
                   consecutive_empty_pages, retry_count, progress_file, calls,
                   kills, errorFree, exhausted, startOffset>>
    /\ UNCHANGED nonFetchVars

EnrichInit ==
    /\ upN \in 0..MaxRecords
    /\ upIds = TRUE
    /\ upFormat = "list"
    /\ upPastEnd = "empty"
    /\ query \in {q \in Queries : "offset" \notin DOMAIN q.params}
    /\ pc = "idle"
    /\ offset = 0
    /\ all_results = <<>>
    /\ consecutive_empty_pages = 0
    /\ retry_count = 0
    /\ result = <<>>
    /\ cache = EmptyCache
    /\ progress_file = NoProgress
    /\ temp_file = "none"
    /\ calls = 0
    /\ kills = 0
    /\ errorFree = TRUE
    /\ exhausted = FALSE
    /\ startOffset = 0
    /\ putLog = <<>>
    /\ lastGet = NoGet
    /\ TransformIdle
    /\ RunIdle
    /\ FrameIdle

EnrichNext ==
    \/ CallFetch
    \/ PageFromCache
    \/ PageFetched
    \/ InjectProjectNames

EnrichSpec == EnrichInit /\ [][EnrichNext]_vars

\* C30: processing a recipe leaves the records in the cache as they were
\* fetched: whatever the cache answers for a page of the query is the page
\* the upstream served, with no project_name added by the enrichment
C30_CacheRecordsAsFetched ==
    \A off \in 0..OffsetCap :
        CacheGet(cache, PageQuery(query, off)).hit =>
            CacheGet(cache, PageQuery(query, off)).data = ParseResponse(RawPage(off, Limit))

====
